---- MODULE Spec2Model ----
(***************************************************************************)
(* Environmental-data acquisition and caching of phantom-tracker.          *)
(*                                                                         *)
(*   lib/environmental/history.ts        fetchHistoricalWeatherRange       *)
(*   lib/environmental/weather-cache.ts  getCachedWeather, cacheWeatherData*)
(*   lib/environmental/index.ts          fetchAllEnvironmentalData         *)
(*   lib/environmental/{weather,geomagnetic,solar,tidal}.ts  the clients   *)
(*                                                                         *)
(* Time is counted in whole seconds (the source counts milliseconds and    *)
(* divides by 1000 for provider timestamps).  A calendar date string       *)
(* "YYYY-MM-DD" is represented by its UTC day number, whose order is the   *)
(* order localeCompare gives on ISO date strings.  Coordinates are pairs   *)
(* of integers in thousandths of a degree.  A nullable value is a sequence *)
(* of length 0 (null) or 1.                                                *)
(***************************************************************************)
EXTENDS Integers, Sequences, FiniteSets, TLC

\* ------------------------------------------------------------------------
\* Program constants
\* ------------------------------------------------------------------------
oneDay == 86400

maxDays == 90

batchSize == 10

noonSeconds == 43200

\* ------------------------------------------------------------------------
\* Bounds of the model
\* ------------------------------------------------------------------------
NumCalls == 2

MaxSpan == 2

MaxSingleSpan == 11

MaxEnumDays == 92

\* days for which the directly called cache functions hold rows
MaxCacheDays == 2

\* how many entries are created
MaxEntries == 2

\* how many requests the hook sends
MaxFetches == 3

\* each element is one invocation of fetchHistoricalWeatherRange, numbered in the order made
Procs == 1..NumCalls

\* the day of "now" in the model's epoch
Today == 100

\* the instant "now" of the historical route: 12:30:00 UTC of that day
EndInstant == Today * oneDay + noonSeconds + 1800

\* two requesters inside one rounding cell (thousandths of a degree)
CoordInputs == { <<37771, -122421>>, <<37774, -122418>> }

NULL == << >>

Some(v) == << v >>

\* ------------------------------------------------------------------------
\* Pure helpers
\* ------------------------------------------------------------------------
Min(a, b) == IF a <= b THEN a ELSE b

\* Math.ceil(a / b) for b > 0
CeilDiv(a, b) == -((-a) \div b)

\* date.toISOString().split("T")[0] : the UTC calendar day of an instant
isoDate(t) == t \div oneDay

\* date.setUTCHours(12, 0, 0, 0) : noon UTC of the instant's UTC day
setUTCHours12(t) == (t \div oneDay) * oneDay + noonSeconds

\* new Date(row.date).getTime() / 1000 : midnight UTC of a date string
dateToTimestamp(d) == d * oneDay

\* Math.round(x * 100) / 100 on thousandths of a degree, in hundredths
round2(m) == (m + 5) \div 10

getLocationKeyCoarse(c) == << 10 * ((c[1] + 50) \div 100), 10 * ((c[2] + 50) \div 100) >>

getLocationKey(c) == << round2(c[1]), round2(c[2]) >>

Range(s) == { s[k] : k \in DOMAIN s }

RECURSIVE SeqFilter(_, _)
SeqFilter(s, keep) ==
    IF Len(s) = 0 THEN << >>
    ELSE IF Len(s) = 1 THEN (IF s[1] \in keep THEN s ELSE << >>)
    ELSE LET half == Len(s) \div 2
         IN  SeqFilter(SubSeq(s, 1, half), keep) \o SeqFilter(SubSeq(s, half + 1, Len(s)), keep)

\* insert a point into a list sorted by date, after the points of equal date (stable)
RECURSIVE InsertByDate(_, _)
InsertByDate(pt, s) ==
    IF s = << >> THEN << pt >>
    ELSE IF pt.date < Head(s).date THEN << pt >> \o s
    ELSE << Head(s) >> \o InsertByDate(pt, Tail(s))

RECURSIVE SortByDate(_)
SortByDate(s) ==
    IF s = << >> THEN << >>
    ELSE InsertByDate(s[Len(s)], SortByDate(SubSeq(s, 1, Len(s) - 1)))

\* lines 106-123 : the dates one call asks for, newest first
daysToFetchUncapped(s, e) == CeilDiv(e - s, oneDay)

daysToFetchOf(s, e) == Min(CeilDiv(e - s, oneDay), maxDays)

enumerateDatesInclusive(s, e) ==
    LET n == daysToFetchOf(s, e)
    IN  [ k \in 1..(IF n >= 0 THEN n + 1 ELSE 0) |-> isoDate(setUTCHours12(e - (k - 1) * oneDay)) ]

enumerateDates(s, e) ==
    LET n == daysToFetchOf(s, e)
    IN  [ k \in 1..(IF n > 0 THEN n ELSE 0) |-> isoDate(setUTCHours12(e - (k - 1) * oneDay)) ]

enumerateTimestamps(s, e) ==
    LET n == daysToFetchOf(s, e)
        ds == { isoDate(setUTCHours12(e - k * oneDay)) : k \in 0..(n - 1) }
    IN  [ d \in ds |-> d * oneDay + noonSeconds ]


\* ------------------------------------------------------------------------
\* The historical provider client (history.ts, fetchFromOpenWeather)
\* ------------------------------------------------------------------------
\* what the network does with one request: the HTTP status class, or a fault
\* thrown by fetch, and on 200 the hourly series of the payload
FetchFaults == { "status401", "status403", "status500", "networkFault", "emptyPayload" }

okResponse(dt, r) == [ kind |-> "ok", data |-> << [ dt |-> dt, reading |-> r ] >> ]

faultResponse(k) == [ kind |-> k, data |-> << >> ]

\* the outcome of an async function: a value, or a thrown fault (a rejected promise)
returns(v) == [ thrown |-> FALSE, value |-> v ]

throws == [ thrown |-> TRUE, value |-> NULL ]

\* new Date(h.dt * 1000).getHours(), the server clock being UTC
getHours(dt) == (dt % oneDay) \div 3600

\* lines 72-76 : the first sample of hour 11..13, else the middle one
noonDataOf(hourlyData) ==
    LET noonIdx == { k \in DOMAIN hourlyData :
                       getHours(hourlyData[k].dt) >= 11 /\ getHours(hourlyData[k].dt) <= 13 }
    IN  IF noonIdx # {}
        THEN hourlyData[CHOOSE k \in noonIdx : \A j \in noonIdx : k <= j]
        ELSE hourlyData[(Len(hourlyData) \div 2) + 1]

\* lines 50-90 : the body of the try block
fetchBody(timestamp, resp) ==
    IF resp.kind = "networkFault" THEN throws
    ELSE IF resp.kind \in { "status401", "status403" } THEN returns(NULL)
    ELSE IF resp.kind = "status500" THEN throws
    ELSE IF Len(resp.data) = 0 THEN returns(NULL)
    ELSE LET noonData == noonDataOf(resp.data)
         IN  returns(Some([ date      |-> isoDate(timestamp),
                            timestamp |-> noonData.dt,
                            reading   |-> noonData.reading ]))

fetchFromOpenWeatherUncaught(apiKeySet, timestamp, resp) ==
    IF ~apiKeySet THEN returns(NULL) ELSE fetchBody(timestamp, resp)

\* lines 38-95 : a point, or null; the catch turns every fault into null
fetchFromOpenWeather(apiKeySet, timestamp, resp) ==
    IF ~apiKeySet THEN returns(NULL)
    ELSE LET r == fetchBody(timestamp, resp)
         IN  IF r.thrown THEN returns(NULL) ELSE r

\* whether the provider gave a usable answer to a request
providerSucceeded(apiKeySet, resp) ==
    apiKeySet /\ resp.kind = "ok" /\ Len(resp.data) > 0

\* ------------------------------------------------------------------------
\* The weather cache (weather-cache.ts) over the weather_cache table
\* ------------------------------------------------------------------------
StoreFaults == { "ok", "error", "throw" }

\* lines 96-106 : the row written for a point; the timestamp is not a column
toRow(key, pt) == [ location_key |-> key, date |-> pt.date, reading |-> pt.reading ]

\* lines 63-73 : the point read from a row
fromRow(row) == [ date      |-> row.date,
                  timestamp |-> dateToTimestamp(row.date),
                  reading   |-> row.reading ]

conflicts(table, row) ==
    \E r \in table : r.location_key = row.location_key /\ r.date = row.date

\* lines 108-113 : upsert(rows, { onConflict: "location_key,date", ignoreDuplicates: true }),
\* one statement (INSERT ... ON CONFLICT DO NOTHING): each row is inserted unless a
\* row of its key is there already; a conflict is no error
RECURSIVE insertOrIgnore(_, _)
insertOrIgnore(table, rows) ==
    IF rows = << >> THEN table
    ELSE insertOrIgnore(
           IF conflicts(table, Head(rows)) THEN table ELSE table \cup { Head(rows) },
           Tail(rows))

RECURSIVE insertOrReplace(_, _)
insertOrReplace(table, rows) ==
    IF rows = << >> THEN table
    ELSE insertOrReplace(
           { r \in table : ~(r.location_key = Head(rows).location_key /\ r.date = Head(rows).date) }
             \cup { Head(rows) },
           Tail(rows))

upsertOverwrite(table, rows) == [ table |-> insertOrReplace(table, rows), error |-> FALSE ]

insertAll(table, rows) == [ table |-> table \cup Range(rows), error |-> FALSE ]

upsertNothing(table, rows) == [ table |-> table, error |-> FALSE ]

upsert(table, rows) == [ table |-> insertOrIgnore(table, rows), error |-> FALSE ]

getCachedWeatherUncaught(configured, fault, table, key, dates) ==
    IF ~configured THEN returns(<< >>)
    ELSE IF fault = "throw" THEN throws
    ELSE IF fault # "ok" THEN returns(<< >>)
    ELSE LET hit == { r \in table : r.location_key = key /\ r.date \in Range(dates) }
             ds  == { r.date : r \in hit }
         IN  returns([ d \in ds |-> fromRow(CHOOSE r \in hit : r.date = d) ])

\* lines 39-81 : the map date -> point of the stored rows among the dates asked for;
\* empty when the store is not configured, answers an error, or throws
getCachedWeather(configured, fault, table, key, dates) ==
    IF ~configured THEN returns(<< >>)
    ELSE IF fault # "ok" THEN returns(<< >>)
    ELSE LET hit == { r \in table : r.location_key = key /\ r.date \in Range(dates) }
             ds  == { r.date : r \in hit }
         IN  returns([ d \in ds |-> fromRow(CHOOSE r \in hit : r.date = d) ])

\* lines 129-155 : the number of rows of a key and its oldest and newest date;
\* zero and null when the store is not configured, answers an error, holds
\* no row of the key, or throws
noStats == [ count |-> 0, oldestDate |-> NULL, newestDate |-> NULL ]

getCacheStats(configured, fault, table, key) ==
    IF ~configured THEN returns(noStats)
    ELSE IF fault # "ok" THEN returns(noStats)
    ELSE LET ds == { r.date : r \in { s \in table : s.location_key = key } }
         IN  IF ds = {} THEN returns(noStats)
             ELSE returns([ count      |-> Cardinality(ds),
                            oldestDate |-> Some(CHOOSE d \in ds : \A x \in ds : d <= x),
                            newestDate |-> Some(CHOOSE d \in ds : \A x \in ds : d >= x) ])

cacheWeatherDataUncaught(configured, fault, table, key, data) ==
    IF ~configured \/ Len(data) = 0 THEN [ thrown |-> FALSE, table |-> table, error |-> FALSE ]
    ELSE IF fault = "throw" THEN [ thrown |-> TRUE, table |-> table, error |-> FALSE ]
    ELSE IF fault # "ok" THEN [ thrown |-> FALSE, table |-> table, error |-> TRUE ]
    ELSE LET w == upsert(table, [ k \in DOMAIN data |-> toRow(key, data[k]) ])
         IN  [ thrown |-> FALSE, table |-> w.table, error |-> w.error ]

\* lines 87-123 : the table after the write and whether an error was logged;
\* a store fault leaves the table as it was; nothing is thrown to the caller
cacheWeatherData(configured, fault, table, key, data) ==
    IF ~configured \/ Len(data) = 0 THEN [ thrown |-> FALSE, table |-> table, error |-> FALSE ]
    ELSE IF fault # "ok" THEN [ thrown |-> FALSE, table |-> table, error |-> TRUE ]
    ELSE LET w == upsert(table, [ k \in DOMAIN data |-> toRow(key, data[k]) ])
         IN  [ thrown |-> FALSE, table |-> w.table, error |-> w.error ]

\* ------------------------------------------------------------------------
\* State
\* ------------------------------------------------------------------------
VARIABLES
    store,              \* the rows of the weather_cache table
    apiKey,             \* process.env.OPENWEATHERMAP_API_KEY is set
    supabaseConfigured, \* isSupabaseConfigured() && supabase
    pc,                 \* where each call of fetchHistoricalWeatherRange is suspended
    startDate, endDate, \* its arguments (the coordinates are kept as their locationKey)
    datesToFetch, timestampsByDate, locationKey,
    cachedData, uncachedDates,
    i,                  \* index of the batch in flight
    batchResults,       \* the promises of the batch: pending, or resolved to a point or null
    newlyFetched,
    results,            \* the list the call resolved with
    requested,          \* the requests handed to the provider client, in order, and how each ended
    writeFault, writeError   \* whether the store met a fault on the call's write; whether the write logged one

histVars == << store, apiKey, supabaseConfigured, pc, startDate, endDate,
               datesToFetch, timestampsByDate, locationKey, cachedData, uncachedDates,
               i, batchResults, newlyFetched, results, requested, writeFault, writeError >>

\* the state of one call of fetchAllEnvironmentalData (index.ts)
VARIABLES
    snapPc,       \* idle, fanout (awaiting Promise.all), done, rejected
    snapCoords, now, moonPhase,    \* the coordinates, new Date(), SunCalc's phase for it
    branch,       \* per provider: pending, or resolved with what the network gave and the value
    snapshot      \* the EnvironmentalData the call resolved with

snapVars == << snapPc, snapCoords, now, moonPhase, branch, snapshot >>

\* a direct call of one exported function of the library: the function, its
\* arguments and what it gave back
VARIABLES call

libVars == << call >>

LibInit == call = [ op |-> "none" ]

\* the variables the historical call leaves alone, and those the snapshot call does
\* the pain entries of the entries routes: the array of route.ts, the array of
\* [id]/route.ts, the pain_entries table, and the ids handed out so far
VARIABLES memoryStore, memoryStoreById, pain_entries, lastId

\* the last request to an entries route with its response, and the ids deleted
VARIABLES entryResponse, deletedIds

entryVars == << memoryStore, memoryStoreById, pain_entries, lastId, entryResponse, deletedIds >>

\* the last request to an environmental route and its response
VARIABLES routeResponse

routeVars == << routeResponse >>

\* the useHistoricalWeather hook of one component: its props, its state, and
\* the requests it has sent to the history route
VARIABLES hookCoordinates, hookDays, hookState, fetches

hookVars == << hookCoordinates, hookDays, hookState, fetches >>

exceptHistCall == << snapVars, libVars, entryVars, hookVars >>

exceptHist == << exceptHistCall, routeVars >>

exceptSnapCall == << histVars, libVars, entryVars, hookVars >>

exceptSnap == << exceptSnapCall, routeVars >>

exceptLib == << histVars, snapVars, entryVars, routeVars, hookVars >>

pending == [ state |-> "pending", value |-> NULL ]

resolved(v) == [ state |-> "resolved", value |-> v ]

request(ts) == [ timestamp |-> ts, outcome |-> "pending" ]

\* the order in which the rows of a read came back, which is the order of Map.values()
valueOrders(m) ==
    LET n == Cardinality(DOMAIN m)
    IN  { [ k \in 1..n |-> m[f[k]] ] :
            f \in { g \in [ 1..n -> DOMAIN m ] : \A a, b \in 1..n : a # b => g[a] # g[b] } }

\* line 133 : the dates the cache did not return, in the order enumerated
uncachedDatesAll(dates, cached) == dates

uncachedDatesOf(dates, cached) == SeqFilter(dates, Range(dates) \ DOMAIN cached)

\* lines 176-185 : cached values, then the fetched points, sorted by date
mergeUnsorted(cachedValues, fetched) == cachedValues \o fetched

mergeAndSort(cachedValues, fetched) == SortByDate(cachedValues \o fetched)

\* lines 149 : the batch starting at index k of the uncached dates
batchOfAll(uncached, k) == SubSeq(uncached, k + 1, Len(uncached))

batchOf(uncached, k) == SubSeq(uncached, k + 1, Min(k + batchSize, Len(uncached)))

\* lines 148, 165 : whether a batch follows the one starting at index k
hasNextBatchNever(k, uncached) == FALSE

hasNextBatch(k, uncached) == k + batchSize < Len(uncached)

\* line 148 : the values i takes in the batch loop over the uncached dates
batchStarts(uncached) == { k \in 0..(Len(uncached) - 1) : k % batchSize = 0 }

\* lines 158-162 : the non-null results of a resolved batch, in the order of the batch
placeholder == [ date |-> 0, timestamp |-> 0, reading |-> 0 ]

RECURSIVE withPlaceholders(_)
withPlaceholders(rs) ==
    IF rs = << >> THEN << >>
    ELSE (IF Head(rs).value = NULL THEN << placeholder >> ELSE Head(rs).value)
           \o withPlaceholders(Tail(rs))

RECURSIVE nonNull(_)
nonNull(rs) ==
    IF rs = << >> THEN << >> ELSE Head(rs).value \o nonNull(Tail(rs))

HistInit ==
    /\ store = {}
    /\ apiKey \in BOOLEAN
    /\ supabaseConfigured \in BOOLEAN
    /\ pc = [ p \in Procs |-> "idle" ]
    /\ startDate = [ p \in Procs |-> 0 ]
    /\ endDate = [ p \in Procs |-> 0 ]
    /\ datesToFetch = [ p \in Procs |-> << >> ]
    /\ timestampsByDate = [ p \in Procs |-> << >> ]
    /\ locationKey = [ p \in Procs |-> << 0, 0 >> ]
    /\ cachedData = [ p \in Procs |-> << >> ]
    /\ uncachedDates = [ p \in Procs |-> << >> ]
    /\ i = [ p \in Procs |-> 0 ]
    /\ batchResults = [ p \in Procs |-> << >> ]
    /\ newlyFetched = [ p \in Procs |-> << >> ]
    /\ results = [ p \in Procs |-> << >> ]
    /\ requested = [ p \in Procs |-> << >> ]
    /\ writeFault = [ p \in Procs |-> "none" ]
    /\ writeError = [ p \in Procs |-> FALSE ]

\* lines 101-129 : a call enumerates its dates and asks the cache for them
StartCall(p, c, s, e) ==
    /\ pc[p] = "idle"
    /\ \A q \in Procs : q < p => pc[q] # "idle"
    /\ pc' = [ pc EXCEPT ![p] = "cacheRead" ]
    /\ startDate' = [ startDate EXCEPT ![p] = s ]
    /\ endDate' = [ endDate EXCEPT ![p] = e ]
    /\ datesToFetch' = [ datesToFetch EXCEPT ![p] = enumerateDates(s, e) ]
    /\ timestampsByDate' = [ timestampsByDate EXCEPT ![p] = enumerateTimestamps(s, e) ]
    /\ locationKey' = [ locationKey EXCEPT ![p] = getLocationKey(c) ]
    /\ UNCHANGED << store, apiKey, supabaseConfigured, cachedData, uncachedDates, i,
                    batchResults, newlyFetched, results, requested, writeFault, writeError >>
    /\ UNCHANGED exceptHistCall

Start(p, c, s, e) == StartCall(p, c, s, e) /\ UNCHANGED routeVars

\* lines 129-156 : the cache read resolves; the uncached dates are worked out and
\* the first batch is issued, or, nothing being uncached, the call returns (176-185)
CacheReadResolve(p, fault) ==
    /\ pc[p] = "cacheRead"
    /\ LET read     == getCachedWeather(supabaseConfigured, fault, store,
                                        locationKey[p], datesToFetch[p])
           cached   == read.value
           uncached == uncachedDatesOf(datesToFetch[p], cached)
           batch    == batchOf(uncached, 0)
       IN  IF read.thrown
           THEN /\ pc' = [ pc EXCEPT ![p] = "rejected" ]
                /\ UNCHANGED << cachedData, uncachedDates, batchResults, requested, results >>
           ELSE /\ cachedData' = [ cachedData EXCEPT ![p] = cached ]
                /\ uncachedDates' = [ uncachedDates EXCEPT ![p] = uncached ]
                /\ IF Len(uncached) > 0
                   THEN /\ batchResults' = [ batchResults EXCEPT ![p] =
                                               [ k \in DOMAIN batch |-> pending ] ]
                        /\ requested' = [ requested EXCEPT ![p] =
                                            [ k \in DOMAIN batch |-> request(timestampsByDate[p][batch[k]]) ] ]
                        /\ pc' = [ pc EXCEPT ![p] = "batch" ]
                        /\ UNCHANGED results
                   ELSE /\ \E vals \in valueOrders(cached) :
                              results' = [ results EXCEPT ![p] = mergeAndSort(vals, << >>) ]
                        /\ pc' = [ pc EXCEPT ![p] = "done" ]
                        /\ UNCHANGED << batchResults, requested >>
    /\ UNCHANGED << store, apiKey, supabaseConfigured, startDate, endDate,
                    datesToFetch, timestampsByDate, locationKey, i, newlyFetched,
                    writeFault, writeError >>
    /\ UNCHANGED exceptHist

\* lines 151-155 : one provider request of the batch in flight settles; a rejection
\* would reject Promise.all and with it the call
FetchResolve(p, k, resp) ==
    /\ pc[p] = "batch"
    /\ k \in DOMAIN batchResults[p]
    /\ batchResults[p][k].state = "pending"
    /\ LET r == fetchFromOpenWeather(apiKey, requested[p][i[p] + k].timestamp, resp)
       IN  IF r.thrown
           THEN /\ pc' = [ pc EXCEPT ![p] = "rejected" ]
                /\ UNCHANGED batchResults
           ELSE /\ batchResults' = [ batchResults EXCEPT ![p][k] = resolved(r.value) ]
                /\ UNCHANGED pc
    /\ requested' = [ requested EXCEPT ![p][i[p] + k].outcome =
                        IF providerSucceeded(apiKey, resp) THEN "ok" ELSE "failed" ]
    /\ UNCHANGED << store, apiKey, supabaseConfigured, startDate, endDate,
                    datesToFetch, timestampsByDate, locationKey, cachedData, uncachedDates,
                    i, newlyFetched, results, writeFault, writeError >>
    /\ UNCHANGED exceptHist

\* lines 150-172 : Promise.all of the batch resolves; its points are collected; then
\* the pacing delay, or the cache write, or (nothing fetched) the return
BatchJoin(p) ==
    /\ pc[p] = "batch"
    /\ \A k \in DOMAIN batchResults[p] : batchResults[p][k].state = "resolved"
    /\ LET fetched == newlyFetched[p] \o nonNull(batchResults[p])
       IN  /\ newlyFetched' = [ newlyFetched EXCEPT ![p] = fetched ]
           /\ batchResults' = [ batchResults EXCEPT ![p] = << >> ]
           /\ IF hasNextBatch(i[p], uncachedDates[p])
              THEN /\ pc' = [ pc EXCEPT ![p] = "delay" ]
                   /\ UNCHANGED results
              ELSE IF Len(fetched) > 0
              THEN /\ pc' = [ pc EXCEPT ![p] = "cacheWrite" ]
                   /\ UNCHANGED results
              ELSE /\ \E vals \in valueOrders(cachedData[p]) :
                         results' = [ results EXCEPT ![p] = mergeAndSort(vals, fetched) ]
                   /\ pc' = [ pc EXCEPT ![p] = "done" ]
    /\ UNCHANGED << store, apiKey, supabaseConfigured, startDate, endDate,
                    datesToFetch, timestampsByDate, locationKey, cachedData, uncachedDates,
                    i, requested, writeFault, writeError >>
    /\ UNCHANGED exceptHist

\* lines 148-156, 165-167 : the pacing delay elapses and the next batch is issued
DelayElapsed(p) ==
    /\ pc[p] = "delay"
    /\ LET batch == batchOf(uncachedDates[p], i[p] + batchSize)
       IN  /\ i' = [ i EXCEPT ![p] = i[p] + batchSize ]
           /\ batchResults' = [ batchResults EXCEPT ![p] = [ k \in DOMAIN batch |-> pending ] ]
           /\ requested' = [ requested EXCEPT ![p] =
                               requested[p] \o [ k \in DOMAIN batch |->
                                                   request(timestampsByDate[p][batch[k]]) ] ]
    /\ pc' = [ pc EXCEPT ![p] = "batch" ]
    /\ UNCHANGED << store, apiKey, supabaseConfigured, startDate, endDate,
                    datesToFetch, timestampsByDate, locationKey, cachedData, uncachedDates,
                    newlyFetched, results, writeFault, writeError >>
    /\ UNCHANGED exceptHist

\* lines 172-185 : the cache write resolves, stored or logged; the call returns
CacheWriteResolve(p, fault) ==
    /\ pc[p] = "cacheWrite"
    /\ LET w == cacheWeatherData(supabaseConfigured, fault, store, locationKey[p], newlyFetched[p])
       IN  /\ store' = w.table
           /\ writeError' = [ writeError EXCEPT ![p] = w.error ]
           /\ IF w.thrown
              THEN /\ pc' = [ pc EXCEPT ![p] = "rejected" ]
                   /\ UNCHANGED results
              ELSE /\ \E vals \in valueOrders(cachedData[p]) :
                         results' = [ results EXCEPT ![p] = mergeAndSort(vals, newlyFetched[p]) ]
                   /\ pc' = [ pc EXCEPT ![p] = "done" ]
    /\ writeFault' = [ writeFault EXCEPT ![p] = IF fault = "ok" THEN "ok" ELSE "fault" ]
    /\ UNCHANGED << apiKey, supabaseConfigured, startDate, endDate,
                    datesToFetch, timestampsByDate, locationKey, cachedData, uncachedDates,
                    i, batchResults, newlyFetched, requested >>
    /\ UNCHANGED exceptHist

\* the faults met by the requests of the long call, one caught and one not thrown
SingleFaults == { "status500", "emptyPayload" }

\* the answers the provider may give to a request of call p for a timestamp: a fault
\* (the concurrent calls meet the other faults), or the sample of that instant.
\* What the provider reports for a day may differ from one request to the next;
\* call p is given reading p, so that two calls never agree
Responses(p, ts) ==
    { faultResponse(f) : f \in FetchFaults \ SingleFaults } \cup { okResponse(ts, p) }

SingleResponses(ts) ==
    { faultResponse(f) : f \in SingleFaults } \cup { okResponse(ts, 1) }

\* the historical route: now, and now minus a number of days (route.ts 53-61)
RouteStarts == { EndInstant - days * oneDay : days \in 0..MaxSpan }

\* ------------------------------------------------------------------------
\* The clients of the current snapshot (weather.ts, geomagnetic.ts, solar.ts,
\* tidal.ts).  A response is what the network gave: kind "ok" with a payload,
\* a non-2xx status, a fault thrown by fetch, or a body that does not parse.
\* Temperatures are in hundredths of a degree in a payload and in tenths in
\* the normalized value; flux is in units of 1e-9 W/m2; Kp in hundredths.
\* ------------------------------------------------------------------------
ClientFaults == { "status500", "networkFault", "malformed" }

\* Math.round(x * 10) / 10 of a value given in hundredths, in tenths
round1(h) == (h + 5) \div 10

\* weather.ts lines 33-39
AQI_LABELS(aqi) ==
    CASE aqi = 1 -> Some("Good")
      [] aqi = 2 -> Some("Fair")
      [] aqi = 3 -> Some("Moderate")
      [] aqi = 4 -> Some("Poor")
      [] aqi = 5 -> Some("Very Poor")
      [] OTHER   -> NULL

\* weather.ts lines 106-122
getMockWeatherData ==
    [ temperature |-> 125, pressure |-> 1013, aqi |-> NULL, aqi_label |-> NULL ]

\* weather.ts lines 50-99 : the body of the try block.  resp.wx and resp.aq are
\* the two responses awaited together; resp.aqi is the payload's aqi (0: no field)
weatherBody(resp) ==
    IF resp.wx = "networkFault" \/ resp.aq = "networkFault" THEN throws
    ELSE IF resp.wx = "status500" THEN throws
    ELSE IF resp.wx = "malformed" THEN throws
    ELSE IF resp.aq = "malformed" THEN throws
    ELSE LET hasAqi == resp.aq = "ok" /\ resp.aqi # 0
         IN  returns([ temperature |-> round1(resp.temp),
                       pressure    |-> resp.pressure,
                       aqi         |-> IF hasAqi THEN Some(resp.aqi) ELSE NULL,
                       aqi_label   |-> IF hasAqi THEN AQI_LABELS(resp.aqi) ELSE NULL ])

fetchWeatherDataNull(apiKeySet, resp) ==
    IF ~apiKeySet THEN returns(NULL)
    ELSE LET r == weatherBody(resp)
         IN  IF r.thrown THEN returns(NULL) ELSE returns(Some(r.value))

\* weather.ts lines 44-104 : the reading, or the mock reading when the key is
\* missing or anything in the body throws
fetchWeatherData(apiKeySet, resp) ==
    IF ~apiKeySet THEN returns(Some(getMockWeatherData))
    ELSE LET r == weatherBody(resp)
         IN  IF r.thrown THEN returns(Some(getMockWeatherData)) ELSE returns(Some(r.value))

\* a number, or NaN
num(n) == [ nan |-> FALSE, n |-> n ]

NaN == [ nan |-> TRUE, n |-> 0 ]

\* unnamed/part_000 lines 361-372
KP_LABELS(kp) ==
    IF kp.nan THEN "Unknown"
    ELSE CASE kp.n \in 0..2 -> "Quiet"
           [] kp.n = 3 -> "Unsettled"
           [] kp.n = 4 -> "Active"
           [] kp.n = 5 -> "Minor Storm"
           [] kp.n = 6 -> "Moderate Storm"
           [] kp.n = 7 -> "Strong Storm"
           [] kp.n = 8 -> "Severe Storm"
           [] kp.n = 9 -> "Extreme Storm"
           [] OTHER    -> "Unknown"

\* unnamed/part_000 lines 375-382 : every comparison with NaN is false
getStormLevel(kp) ==
    IF      ~kp.nan /\ kp.n < 5 THEN "G0"
    ELSE IF ~kp.nan /\ kp.n = 5 THEN "G1"
    ELSE IF ~kp.nan /\ kp.n = 6 THEN "G2"
    ELSE IF ~kp.nan /\ kp.n = 7 THEN "G3"
    ELSE IF ~kp.nan /\ kp.n = 8 THEN "G4"
    ELSE "G5"

\* unnamed/part_000 lines 420-427
getMockGeomagneticData ==
    [ kp_index |-> num(2), kp_label |-> "Quiet", storm_level |-> "G0" ]

\* Math.round(parseFloat(latestEntry[1])) ; resp.kp is the field in hundredths, or null
parseKp(kp) == IF kp = NULL THEN NaN ELSE num((kp[1] + 50) \div 100)

\* unnamed/part_000 lines 389-413 : the body of the try block; resp.rows is the
\* number of rows of the array (0: the body is no array)
geomagneticBody(resp) ==
    IF resp.kind # "ok" THEN throws
    ELSE IF resp.rows < 2 THEN throws
    ELSE LET kp_index == parseKp(resp.kp)
         IN  returns([ kp_index    |-> kp_index,
                       kp_label    |-> KP_LABELS(kp_index),
                       storm_level |-> getStormLevel(kp_index) ])

fetchGeomagneticDataNull(resp) ==
    LET r == geomagneticBody(resp)
    IN  IF r.thrown THEN returns(NULL) ELSE returns(Some(r.value))

\* unnamed/part_000 lines 387-418 : the reading, or the mock reading on any fault
fetchGeomagneticData(resp) ==
    LET r == geomagneticBody(resp)
    IN  IF r.thrown THEN returns(Some(getMockGeomagneticData)) ELSE returns(Some(r.value))

\* solar.ts lines 84-99 : flux is null when the entry has no flux field, and then
\* every comparison is false.  xray_flux is kept as its class letter and the
\* scaled value in tenths (null: "NaN")
classifyXrayFlux(flux) ==
    IF      flux # NULL /\ flux[1] < 100    THEN [ xray_class |-> "A", xray_flux |-> Some(flux[1]) ]
    ELSE IF flux # NULL /\ flux[1] < 1000   THEN [ xray_class |-> "B", xray_flux |-> Some(flux[1] \div 10) ]
    ELSE IF flux # NULL /\ flux[1] < 10000  THEN [ xray_class |-> "C", xray_flux |-> Some(flux[1] \div 100) ]
    ELSE IF flux # NULL /\ flux[1] < 100000 THEN [ xray_class |-> "M", xray_flux |-> Some(flux[1] \div 1000) ]
    ELSE [ xray_class |-> "X",
           xray_flux  |-> IF flux = NULL THEN NULL ELSE Some(flux[1] \div 10000) ]

\* solar.ts lines 104-113 : in percent
calculateFlareProbability(xray_class) ==
    CASE xray_class = "A" -> 5
      [] xray_class = "B" -> 10
      [] xray_class = "C" -> 20
      [] xray_class = "M" -> 40
      [] xray_class = "X" -> 70
      [] OTHER -> 10

\* solar.ts lines 13-73 : the body of the try block; resp.rows is the length of
\* the array (0: no array, or an empty one)
solarBody(resp) ==
    IF resp.kind # "ok" THEN throws
    ELSE IF resp.rows = 0 THEN throws
    ELSE LET c == classifyXrayFlux(resp.flux)
         IN  returns([ xray_flux  |-> c.xray_flux,
                       xray_class |-> c.xray_class,
                       flare_probability_24h |-> calculateFlareProbability(c.xray_class) ])

fetchSolarDataUncaught(resp) ==
    LET r == solarBody(resp)
    IN  IF r.thrown THEN throws ELSE returns(Some(r.value))

\* solar.ts lines 11-78 : the reading, or null on any fault
fetchSolarData(resp) ==
    LET r == solarBody(resp)
    IN  IF r.thrown THEN returns(NULL) ELSE returns(Some(r.value))

\* unnamed/part_004 lines 79-94 : resp.next is the type of the next predicted event
determineTidalPhase(resp) ==
    IF resp.predictions < 2 THEN "rising"
    ELSE IF resp.next = "none" THEN "rising"
    ELSE IF resp.next = "H" THEN "rising"
    ELSE IF resp.next = "L" THEN "falling"
    ELSE "rising"

\* unnamed/part_004 lines 13-54 : the body of the try block; resp.v is the water
\* level in millimetres, or null; heights are normalized to centimetres
tidalBody(resp) ==
    IF resp.kind # "ok" THEN throws
    ELSE returns([ current_height_m |-> IF resp.v = NULL THEN 0 ELSE (resp.v[1] + 5) \div 10,
                   tidal_phase      |-> determineTidalPhase(resp) ])

\* unnamed/part_004 lines 11-59 : the reading, or null on any fault
fetchTidalData(resp) ==
    LET r == tidalBody(resp)
    IN  IF r.thrown THEN returns(NULL) ELSE returns(Some(r.value))

\* lunar.ts lines 56-66 : phase is SunCalc's phase fraction in ten-thousandths
getMoonPhaseName(phase) ==
    IF      phase < 625  THEN "new_moon"
    ELSE IF phase < 1875 THEN "waxing_crescent"
    ELSE IF phase < 3125 THEN "first_quarter"
    ELSE IF phase < 4375 THEN "waxing_gibbous"
    ELSE IF phase < 5625 THEN "full_moon"
    ELSE IF phase < 6875 THEN "waning_gibbous"
    ELSE IF phase < 8125 THEN "last_quarter"
    ELSE IF phase < 9375 THEN "waning_crescent"
    ELSE "new_moon"

\* lunar.ts lines 25-51
calculateLunarData(phase) ==
    [ phase          |-> getMoonPhaseName(phase),
      distance_trend |-> IF phase < 5000 THEN "approaching" ELSE "receding" ]

\* a calendar date [year, month (0-based), day] as a count of local days
isLeap(y) == (y % 4 = 0 /\ y % 100 # 0) \/ y % 400 = 0

daysBeforeMonth(y, m) ==
    LET cum == << 0, 31, 59, 90, 120, 151, 181, 212, 243, 273, 304, 334 >>
    IN  cum[m + 1] + (IF m >= 2 /\ isLeap(y) THEN 1 ELSE 0)

RECURSIVE daysBeforeYear(_)
daysBeforeYear(y) ==
    IF y <= 2020 THEN 0 ELSE daysBeforeYear(y - 1) + (IF isLeap(y - 1) THEN 366 ELSE 365)

dayNumber(y, m, d) == daysBeforeYear(y) + daysBeforeMonth(y, m) + d - 1

\* unnamed/part_002 lines 54-86 : date is [year, month, day]; the time of day
\* does not change the floor of the difference
calculateDaysSinceSolstice(date, isNorthernHemisphere) ==
    LET year == date.year
        winterMonth == IF isNorthernHemisphere THEN 11 ELSE 5
        summerMonth == IF isNorthernHemisphere THEN 5 ELSE 11
        today == dayNumber(date.year, date.month, date.day)
        winterSolsticeThisYear == dayNumber(year, winterMonth, 21)
        winterSolsticePrevYear == dayNumber(year - 1, winterMonth, 21)
        summerSolsticeThisYear == dayNumber(year, summerMonth, 21)
        mostRecentSolstice ==
            IF today >= summerSolsticeThisYear THEN summerSolsticeThisYear
            ELSE IF today >= winterSolsticeThisYear THEN winterSolsticeThisYear
            ELSE IF winterMonth = 11 THEN winterSolsticePrevYear
            ELSE summerSolsticeThisYear
    IN  today - mostRecentSolstice

\* unnamed/part_002 lines 13-38 : the sun times come from SunCalc and are left out
calculateTemporalData(date, c) ==
    [ days_since_solstice |-> calculateDaysSinceSolstice(date, c[1] >= 0) ]

\* index.ts lines 29-37
composeSnapshot(weather, geomagnetic, solar, tidal, lunar, temporal) ==
    [ weather |-> weather, lunar |-> Some(lunar), geomagnetic |-> geomagnetic,
      solar |-> solar, tidal |-> tidal, temporal |-> Some(temporal) ]

\* ------------------------------------------------------------------------
\* State of one call of fetchAllEnvironmentalData
\* ------------------------------------------------------------------------
Providers == { "weather", "geomagnetic", "solar", "tidal" }

branchPending == [ state |-> "pending", failed |-> FALSE, got |-> << >>, value |-> NULL ]

SnapInit ==
    /\ snapPc = "idle"
    /\ snapCoords = << 0, 0 >>
    /\ now = [ year |-> 2024, month |-> 0, day |-> 1 ]
    /\ moonPhase = 0
    /\ branch = [ b \in Providers |-> branchPending ]
    /\ snapshot = NULL

\* the answers of the four providers
WeatherResponses ==
    { [ wx |-> w, aq |-> a, temp |-> 1826, pressure |-> 998, aqi |-> q ] :
        w \in { "ok" } \cup ClientFaults, a \in { "ok" } \cup ClientFaults, q \in { 0, 3 } }

GeomagneticResponses ==
    { [ kind |-> k, rows |-> 0, kp |-> NULL ] : k \in ClientFaults }
      \cup { [ kind |-> "ok", rows |-> 1, kp |-> NULL ] }
      \cup { [ kind |-> "ok", rows |-> 9, kp |-> v ] : v \in { Some(33), Some(567), NULL } }

SolarResponses ==
    { [ kind |-> k, rows |-> 0, flux |-> NULL ] : k \in ClientFaults }
      \cup { [ kind |-> "ok", rows |-> 0, flux |-> NULL ] }
      \cup { [ kind |-> "ok", rows |-> 72, flux |-> v ] : v \in { Some(52), Some(3200), Some(250000), NULL } }

TidalResponses ==
    { [ kind |-> k, predictions |-> 0, next |-> "none", v |-> NULL ] : k \in ClientFaults }
      \cup { [ kind |-> "ok", predictions |-> 4, next |-> n, v |-> Some(1234) ] : n \in { "H", "L" } }
      \cup { [ kind |-> "ok", predictions |-> 0, next |-> "none", v |-> NULL ] }

weatherFailed(apiKeySet, resp) ==
    ~apiKeySet \/ resp.wx # "ok" \/ resp.aq \in { "networkFault", "malformed" }

geomagneticFailed(resp) == resp.kind # "ok" \/ resp.rows < 2

solarFailed(resp) == resp.kind # "ok" \/ resp.rows = 0

tidalFailed(resp) == resp.kind # "ok"

NowInputs ==
    { [ year |-> 2024, month |-> 0, day |-> 15 ], [ year |-> 2024, month |-> 5, day |-> 21 ],
      [ year |-> 2023, month |-> 11, day |-> 25 ] }

SnapCoordInputs == { << 37771, -122421 >>, << -33868, 151209 >> }

\* index.ts lines 12-23 : the four clients are called and awaited together
SnapStartCall(c, t, ph) ==
    /\ snapPc = "idle"
    /\ snapPc' = "fanout"
    /\ snapCoords' = c
    /\ now' = t
    /\ moonPhase' = ph
    /\ UNCHANGED << branch, snapshot >>
    /\ UNCHANGED exceptSnapCall

SnapStart(c, t, ph) == SnapStartCall(c, t, ph) /\ UNCHANGED routeVars

\* one of the four promises settles; a rejection rejects Promise.all and the call
BranchResolve(b, failed, got, r) ==
    /\ snapPc = "fanout"
    /\ branch[b].state = "pending"
    /\ IF r.thrown
       THEN /\ snapPc' = "rejected"
            /\ UNCHANGED branch
       ELSE /\ branch' = [ branch EXCEPT ![b] =
                            [ state |-> "resolved", failed |-> failed,
                              got |-> IF failed THEN << >> ELSE << got >>, value |-> r.value ] ]
            /\ UNCHANGED snapPc
    /\ UNCHANGED << snapCoords, now, moonPhase, snapshot >>
    /\ UNCHANGED exceptSnap

WeatherResolve(resp) ==
    BranchResolve("weather", weatherFailed(apiKey, resp), resp, fetchWeatherData(apiKey, resp))

GeomagneticResolve(resp) ==
    BranchResolve("geomagnetic", geomagneticFailed(resp), resp, fetchGeomagneticData(resp))

SolarResolve(resp) ==
    BranchResolve("solar", solarFailed(resp), resp, fetchSolarData(resp))

TidalResolve(resp) ==
    BranchResolve("tidal", tidalFailed(resp), resp, fetchTidalData(resp))

\* index.ts lines 18-37 : Promise.all resolves; lunar and temporal are computed
SnapJoin ==
    /\ snapPc = "fanout"
    /\ \A b \in Providers : branch[b].state = "resolved"
    /\ snapshot' = Some(composeSnapshot(branch["weather"].value, branch["geomagnetic"].value,
                                        branch["solar"].value, branch["tidal"].value,
                                        calculateLunarData(moonPhase),
                                        calculateTemporalData(now, snapCoords)))
    /\ snapPc' = "done"
    /\ UNCHANGED << snapCoords, now, moonPhase, branch >>
    /\ UNCHANGED exceptSnap

\* ------------------------------------------------------------------------
\* The entries routes (app/api/entries/route.ts and
\* app/api/entries/[id]/route.ts). An entry is modelled by its id, its pain
\* level and whether it was updated after its creation; ids are handed out
\* in order, so a larger id is a later created_at. An index is 1-based and
\* 0 stands for the -1 of findIndex and the undefined of find.
\* ------------------------------------------------------------------------
json(type, n) == [ type |-> type, n |-> n ]

\* a field the body does not have
undefined == json("undefined", 0)

EntryInit ==
    /\ memoryStore = << >>
    /\ memoryStoreById = << >>
    /\ pain_entries = {}
    /\ lastId = 0
    /\ entryResponse = [ method |-> "none", byId |-> FALSE, id |-> 0, live |-> FALSE,
                         valid |-> FALSE, status |-> 0, data |-> << >> ]
    /\ deletedIds = {}

\* route.ts lines 39-46 : the three coordinates and a pain level of 1..10
validEntry(body) ==
    ~ ( \/ body.pain_point_x.type # "number"
        \/ body.pain_point_y.type # "number"
        \/ body.pain_point_z.type # "number"
        \/ body.pain_level.type # "number"
        \/ body.pain_level.n < 1
        \/ body.pain_level.n > 10 )

\* [id]/route.ts lines 67-78 : a pain level, when given, is 1..10
validPatch(body) ==
    ~ ( /\ body.pain_level.type # "undefined"
        /\ ( \/ body.pain_level.type # "number"
             \/ body.pain_level.n < 1
             \/ body.pain_level.n > 10 ) )

\* route.ts lines 68-74 : the entry made of a body
newEntry(id, body) == [ id |-> id, pain_level |-> body.pain_level.n, updated_at |-> 0 ]

\* [id]/route.ts lines 113-117 : the entry with the body's fields over its own
patched(entry, body) ==
    [ entry EXCEPT !.pain_level = IF body.pain_level.type = "undefined" THEN @
                                  ELSE body.pain_level.n,
                   !.updated_at = 1 ]

findIndex(s, id) ==
    LET hits == { k \in DOMAIN s : s[k].id = id }
    IN  IF hits = {} THEN 0 ELSE CHOOSE k \in hits : \A j \in hits : k <= j

unshift(s, e) == << e >> \o s

splice(s, index) == [ k \in 1..(Len(s) - 1) |-> IF k < index THEN s[k] ELSE s[k + 1] ]

\* .order("created_at", { ascending: false })
RECURSIVE newestFirst(_)
newestFirst(rows) ==
    IF rows = {} THEN << >>
    ELSE LET r == CHOOSE x \in rows : \A y \in rows : y.id <= x.id
         IN  << r >> \o newestFirst(rows \ { r })

\* the faults the pain_entries table can answer with; without Supabase there
\* is no table to fail
EntryFaults == IF supabaseConfigured THEN StoreFaults ELSE { "ok" }

\* whether the id was given out with a 201 and not deleted since
live(id) == id \in 1..lastId /\ id \notin deletedIds

response(method, byId, id, valid, status, data) ==
    [ method |-> method, byId |-> byId, id |-> id, live |-> live(id), valid |-> valid,
      status |-> status, data |-> data ]

\* route.ts lines 8-32 : GET /api/entries
EntriesGET(fault) ==
    /\ entryResponse' =
          IF supabaseConfigured
          THEN IF fault = "ok"
               THEN response("GET", FALSE, 0, TRUE, 200, newestFirst(pain_entries))
               ELSE response("GET", FALSE, 0, TRUE, 500, << >>)
          ELSE response("GET", FALSE, 0, TRUE, 200, memoryStore)
    /\ UNCHANGED << memoryStore, memoryStoreById, pain_entries, lastId, deletedIds >>
    /\ UNCHANGED << histVars, snapVars, libVars, routeVars, hookVars >>

\* route.ts lines 34-85 : POST /api/entries
EntriesPOST(body, fault) ==
    LET created == newEntry(lastId + 1, body)
        ok      == body.parsed /\ validEntry(body) /\ fault = "ok"
    IN  /\ lastId < MaxEntries
        /\ entryResponse' =
              IF ~ body.parsed THEN response("POST", FALSE, 0, FALSE, 500, << >>)
              ELSE IF ~ validEntry(body) THEN response("POST", FALSE, 0, FALSE, 400, << >>)
              ELSE IF fault # "ok" THEN response("POST", FALSE, 0, TRUE, 500, << >>)
              ELSE response("POST", FALSE, created.id, TRUE, 201, << created >>)
        /\ pain_entries' = IF ok /\ supabaseConfigured THEN pain_entries \cup { created }
                           ELSE pain_entries
        /\ memoryStore' = IF ok /\ ~ supabaseConfigured THEN unshift(memoryStore, created)
                          ELSE memoryStore
        /\ lastId' = IF ok THEN lastId + 1 ELSE lastId
        /\ UNCHANGED << memoryStoreById, deletedIds >>
        /\ UNCHANGED << histVars, snapVars, libVars, routeVars, hookVars >>

\* [id]/route.ts lines 11-55 : GET /api/entries/[id]
EntryGET(id, fault) ==
    LET rows  == { r \in pain_entries : r.id = id }
        index == findIndex(memoryStoreById, id)
    IN  /\ entryResponse' =
              IF supabaseConfigured
              THEN IF fault # "ok" THEN response("GET", TRUE, id, TRUE, 500, << >>)
                   ELSE IF rows = {} THEN response("GET", TRUE, id, TRUE, 404, << >>)
                   ELSE response("GET", TRUE, id, TRUE, 200, << CHOOSE r \in rows : TRUE >>)
              ELSE IF index = 0 THEN response("GET", TRUE, id, TRUE, 404, << >>)
                   ELSE response("GET", TRUE, id, TRUE, 200, << memoryStoreById[index] >>)
        /\ UNCHANGED << memoryStore, memoryStoreById, pain_entries, lastId, deletedIds >>
        /\ UNCHANGED << histVars, snapVars, libVars, routeVars, hookVars >>

\* [id]/route.ts lines 57-127 : PATCH /api/entries/[id]
EntryPATCH(id, body, fault) ==
    LET rows  == { r \in pain_entries : r.id = id }
        index == findIndex(memoryStoreById, id)
        ok    == body.parsed /\ validPatch(body) /\ fault = "ok"
    IN  /\ entryResponse' =
              IF ~ body.parsed THEN response("PATCH", TRUE, id, FALSE, 500, << >>)
              ELSE IF ~ validPatch(body) THEN response("PATCH", TRUE, id, FALSE, 400, << >>)
              ELSE IF supabaseConfigured
              THEN IF fault # "ok" THEN response("PATCH", TRUE, id, TRUE, 500, << >>)
                   ELSE IF rows = {} THEN response("PATCH", TRUE, id, TRUE, 404, << >>)
                   ELSE response("PATCH", TRUE, id, TRUE, 200,
                                 << patched(CHOOSE r \in rows : TRUE, body) >>)
              ELSE IF index = 0 THEN response("PATCH", TRUE, id, TRUE, 404, << >>)
                   ELSE response("PATCH", TRUE, id, TRUE, 200,
                                 << patched(memoryStoreById[index], body) >>)
        /\ pain_entries' = IF ok /\ supabaseConfigured
                           THEN (pain_entries \ rows) \cup { patched(r, body) : r \in rows }
                           ELSE pain_entries
        /\ memoryStoreById' = IF ok /\ ~ supabaseConfigured /\ index # 0
                              THEN [ memoryStoreById EXCEPT ![index] = patched(@, body) ]
                              ELSE memoryStoreById
        /\ UNCHANGED << memoryStore, lastId, deletedIds >>
        /\ UNCHANGED << histVars, snapVars, libVars, routeVars, hookVars >>

\* [id]/route.ts lines 129-167 : DELETE /api/entries/[id]
EntryDELETE(id, fault) ==
    LET index   == findIndex(memoryStoreById, id)
        removed == IF supabaseConfigured THEN fault = "ok" ELSE index # 0
    IN  /\ entryResponse' =
              IF supabaseConfigured
              THEN IF fault # "ok" THEN response("DELETE", TRUE, id, TRUE, 500, << >>)
                   ELSE response("DELETE", TRUE, id, TRUE, 200, << >>)
              ELSE IF index = 0 THEN response("DELETE", TRUE, id, TRUE, 404, << >>)
                   ELSE response("DELETE", TRUE, id, TRUE, 200, << >>)
        /\ pain_entries' = IF supabaseConfigured /\ fault = "ok"
                           THEN { r \in pain_entries : r.id # id }
                           ELSE pain_entries
        /\ memoryStoreById' = IF ~ supabaseConfigured /\ index # 0
                              THEN splice(memoryStoreById, index)
                              ELSE memoryStoreById
        /\ deletedIds' = IF removed THEN deletedIds \cup ({ id } \cap (1..lastId))
                         ELSE deletedIds
        /\ UNCHANGED << memoryStore, lastId >>
        /\ UNCHANGED << histVars, snapVars, libVars, routeVars, hookVars >>

\* ------------------------------------------------------------------------
\* The environmental routes (app/api/environmental/route.ts): the current
\* snapshot and the historical range. A body is what request.json() gave:
\* an object with its fields, null, or nothing when the text is not JSON.
\* ------------------------------------------------------------------------
RouteInit == routeResponse = [ route |-> "none" ]

\* the days of history asked for when the body names none
defaultDays == 30

\* lines 14 and 46 : both coordinates are numbers
validCoordinatesEither(body) ==
    body.latitude.type = "number" \/ body.longitude.type = "number"

validCoordinates(body) ==
    ~ (body.latitude.type # "number" \/ body.longitude.type # "number")

\* lines 9-12 and 41-44
coordinatesOf(body) == << body.latitude.n, body.longitude.n >>

\* line 53
daysOf(body) == IF body.days.type = "number" THEN body.days.n ELSE defaultDays

answer(route, body, status) == [ route |-> route, body |-> body, status |-> status ]

\* status of a request whose library call has not settled yet
awaiting == 0

\* lines 5-21 : POST of the current snapshot, up to the await of the library call
POSTEnvironmental(body, t, ph) ==
    /\ routeResponse.route = "none"
    /\ IF body.kind # "object"
       THEN /\ routeResponse' = answer("environmental", body, 500)
            /\ UNCHANGED << histVars, snapVars, libVars, entryVars, hookVars >>
       ELSE IF ~ validCoordinates(body)
       THEN /\ routeResponse' = answer("environmental", body, 400)
            /\ UNCHANGED << histVars, snapVars, libVars, entryVars, hookVars >>
       ELSE /\ routeResponse' = answer("environmental", body, awaiting)
            /\ SnapStartCall(coordinatesOf(body), t, ph)

\* lines 37-61 : POST of the historical range, up to the await of the library call
POSTHistory(body) ==
    /\ routeResponse.route = "none"
    /\ IF body.kind # "object"
       THEN /\ routeResponse' = answer("history", body, 500)
            /\ UNCHANGED << histVars, snapVars, libVars, entryVars, hookVars >>
       ELSE IF ~ validCoordinates(body)
       THEN /\ routeResponse' = answer("history", body, 400)
            /\ UNCHANGED << histVars, snapVars, libVars, entryVars, hookVars >>
       ELSE /\ routeResponse' = answer("history", body, awaiting)
            /\ StartCall(1, coordinatesOf(body), EndInstant - daysOf(body) * oneDay, EndInstant)

\* lines 23-30 and 63-70 : the library call settled: its value is sent, or the
\* catch answers 500
Respond ==
    /\ routeResponse.route # "none"
    /\ routeResponse.status = awaiting
    /\ LET state == IF routeResponse.route = "history" THEN pc[1] ELSE snapPc
       IN  /\ state \in { "done", "rejected" }
           /\ routeResponse' = [ routeResponse EXCEPT
                                    !.status = IF state = "done" THEN 200 ELSE 500 ]
    /\ UNCHANGED << histVars, snapVars, libVars, entryVars, hookVars >>

\* ------------------------------------------------------------------------
\* The useHistoricalWeather hook (hooks/useHistoricalWeather.ts). fetches is
\* the list of the requests sent, in the order sent, each pending or arrived.
\* ------------------------------------------------------------------------
\* lines 17-21 ; the component is first rendered without hookCoordinates
HookInit ==
    /\ hookCoordinates = NULL
    /\ hookDays = defaultDays
    /\ hookState = [ data |-> << >>, isLoading |-> FALSE, error |-> NULL ]
    /\ fetches = << >>

\* lines 23-37 : fetchData up to its await, with the props of the render it
\* was made in
fetchData(c, d) ==
    IF c = NULL
    THEN UNCHANGED << hookState, fetches >>
    ELSE /\ hookState' = [ hookState EXCEPT !.isLoading = TRUE, !.error = NULL ]
         /\ fetches' = Append(fetches, [ latitude |-> c[1][1], longitude |-> c[1][2],
                                         days |-> d, arrived |-> FALSE ])

\* lines 59-64 : a render with other coordinates or days runs the effect
Render(c, d) ==
    /\ Len(fetches) < MaxFetches
    /\ << c, d >> # << hookCoordinates, hookDays >>
    /\ hookCoordinates' = c
    /\ hookDays' = d
    /\ fetchData(c, d)
    /\ UNCHANGED << histVars, snapVars, libVars, entryVars, routeVars >>

\* line 68 : the component calls refresh
Refresh ==
    /\ Len(fetches) < MaxFetches
    /\ fetchData(hookCoordinates, hookDays)
    /\ UNCHANGED << hookCoordinates, hookDays >>
    /\ UNCHANGED << histVars, snapVars, libVars, entryVars, routeVars >>

\* what the history route answers to the n-th request: the points of its
\* coordinates and days
historicalData(n) ==
    << [ request |-> n, latitude |-> fetches[n].latitude, longitude |-> fetches[n].longitude,
         days |-> fetches[n].days ] >>

\* lines 39-56 : the answer to the n-th request arrives: its data replaces
\* the state, or its fault is recorded in the state
Arrive(n, got) ==
    /\ n \in DOMAIN fetches
    /\ ~ fetches[n].arrived
    /\ fetches' = [ fetches EXCEPT ![n].arrived = TRUE ]
    /\ hookState' = IF got = "ok"
                    THEN [ data |-> historicalData(n), isLoading |-> FALSE, error |-> NULL ]
                    ELSE [ hookState EXCEPT !.isLoading = FALSE, !.error = Some(got) ]
    /\ UNCHANGED << hookCoordinates, hookDays >>
    /\ UNCHANGED << histVars, snapVars, libVars, entryVars, routeVars >>

\* ------------------------------------------------------------------------
\* Concurrent calls over short ranges (one batch each) sharing the cache
\* ------------------------------------------------------------------------
vars == << histVars, snapVars, libVars, entryVars, routeVars, hookVars >>

Init == HistInit /\ SnapInit /\ LibInit /\ EntryInit /\ RouteInit /\ HookInit

Next ==
    \E p \in Procs :
        \/ \E c \in CoordInputs, s \in RouteStarts : Start(p, c, s, EndInstant)
        \/ \E f \in StoreFaults : CacheReadResolve(p, f)
        \/ \E k \in DOMAIN batchResults[p] :
              \E resp \in Responses(p, requested[p][i[p] + k].timestamp) :
                 FetchResolve(p, k, resp)
        \/ BatchJoin(p)
        \/ \E f \in StoreFaults : CacheWriteResolve(p, f)

Spec == Init /\ [][Next]_vars

\* ------------------------------------------------------------------------
\* One call over a long range, the cache being empty: several batches
\* ------------------------------------------------------------------------
SingleStarts == { EndInstant - days * oneDay : days \in 0..MaxSingleSpan }

NextSingle ==
    \/ \E c \in CoordInputs, s \in SingleStarts : Start(1, c, s, EndInstant)
    \/ \E f \in StoreFaults : CacheReadResolve(1, f)
    \/ \E k \in DOMAIN batchResults[1] :
          \E resp \in SingleResponses(requested[1][i[1] + k].timestamp) :
             FetchResolve(1, k, resp)
    \/ BatchJoin(1)
    \/ DelayElapsed(1)
    \/ \E f \in StoreFaults : CacheWriteResolve(1, f)

SpecSingle == Init /\ [][NextSingle]_vars

\* ------------------------------------------------------------------------
\* The enumeration of the dates alone, over start and end instants at any
\* time of day, up to and beyond the 90-day cap
\* ------------------------------------------------------------------------
EnumInstants ==
    { d * oneDay + o : d \in (Today - MaxEnumDays)..Today, o \in { 0, noonSeconds + 1800, oneDay - 1 } }

\* the end of the range is today or yesterday
EnumEnds == { e \in EnumInstants : e >= (Today - 1) * oneDay }

NextEnum ==
    \/ /\ pc[1] = "idle"
       /\ \E c \in CoordInputs, s \in EnumInstants, e \in EnumEnds : Start(1, c, s, e)
    \/ \E f \in StoreFaults : CacheReadResolve(1, f)

SpecEnum == Init /\ [][NextEnum]_vars

\* ------------------------------------------------------------------------
\* One call of fetchAllEnvironmentalData
\* ------------------------------------------------------------------------
MoonPhaseInputs == { 300, 5200 }

NextSnap ==
    \/ \E c \in SnapCoordInputs, t \in NowInputs, ph \in MoonPhaseInputs : SnapStart(c, t, ph)
    \/ \E resp \in WeatherResponses : WeatherResolve(resp)
    \/ \E resp \in GeomagneticResponses : GeomagneticResolve(resp)
    \/ \E resp \in SolarResponses : SolarResolve(resp)
    \/ \E resp \in TidalResponses : TidalResolve(resp)
    \/ SnapJoin

SpecSnap == Init /\ [][NextSnap]_vars

\* ------------------------------------------------------------------------
\* Direct calls of the cache functions (weather-cache.ts) on a store that
\* fills up: writes, reads and statistics for two location keys
\* ------------------------------------------------------------------------
CacheCoordInputs == { << 37771, -122421 >>, << 40713, -74006 >> }

CacheDates == (Today - MaxCacheDays + 1)..Today

\* the points of one reading for a set of dates, oldest first
pointsOf(ds, r) ==
    SortByDate(CHOOSE s \in [ 1..Cardinality(ds) -> { [ date |-> d, timestamp |-> d * oneDay + noonSeconds,
                                                        reading |-> r ] : d \in ds } ] :
                  \A a, b \in 1..Cardinality(ds) : a # b => s[a] # s[b])

datesNewestFirst(ds) ==
    LET n == Cardinality(ds)
        s == SortByDate(pointsOf(ds, 0))
    IN  [ k \in 1..n |-> s[n + 1 - k].date ]

CallCacheWeatherData(c, ds, r, fault) ==
    LET key == getLocationKey(c)
        w   == cacheWeatherData(supabaseConfigured, fault, store, key, pointsOf(ds, r))
    IN  /\ store' = w.table
        /\ call' = [ op |-> "cacheWeatherData", key |-> key, dates |-> ds, fault |-> fault,
                     thrown |-> w.thrown, error |-> w.error ]
        /\ UNCHANGED << apiKey, supabaseConfigured, pc, startDate, endDate, datesToFetch,
                        timestampsByDate, locationKey, cachedData, uncachedDates, i,
                        batchResults, newlyFetched, results, requested, writeFault, writeError >>
        /\ UNCHANGED << snapVars, entryVars, routeVars, hookVars >>

CallGetCachedWeather(c, ds, fault) ==
    LET key == getLocationKey(c)
        r   == getCachedWeather(supabaseConfigured, fault, store, key, datesNewestFirst(ds))
    IN  /\ call' = [ op |-> "getCachedWeather", key |-> key, dates |-> ds, fault |-> fault,
                     thrown |-> r.thrown, value |-> r.value ]
        /\ UNCHANGED exceptLib

CallGetCacheStats(c, fault) ==
    LET key == getLocationKey(c)
        r   == getCacheStats(supabaseConfigured, fault, store, key)
    IN  /\ call' = [ op |-> "getCacheStats", key |-> key, fault |-> fault,
                     thrown |-> r.thrown, value |-> r.value ]
        /\ UNCHANGED exceptLib

NextCache ==
    \/ \E c \in CacheCoordInputs, ds \in SUBSET CacheDates, f \in StoreFaults :
          CallCacheWeatherData(c, ds, 1, f)
    \/ \E c \in CacheCoordInputs, ds \in SUBSET CacheDates, f \in StoreFaults :
          CallGetCachedWeather(c, ds, f)
    \/ \E c \in CacheCoordInputs, f \in StoreFaults : CallGetCacheStats(c, f)

SpecCache == Init /\ [][NextCache]_vars

\* ------------------------------------------------------------------------
\* The location key as text (weather-cache.ts lines 9-21).  A text is the
\* sequence of its characters; a parsed number is in thousandths of a degree
\* ------------------------------------------------------------------------
digitChars == << "0", "1", "2", "3", "4", "5", "6", "7", "8", "9" >>

RECURSIVE digitsOf(_)
digitsOf(n) ==
    IF n < 10 THEN << digitChars[n + 1] >>
    ELSE digitsOf(n \div 10) \o << digitChars[(n % 10) + 1] >>

\* String(x) of a number of at most two decimals, given in hundredths
numberToString(h) ==
    LET a  == IF h < 0 THEN -h ELSE h
        fp == a % 100
    IN  (IF h < 0 THEN << "-" >> ELSE << >>)
          \o digitsOf(a \div 100)
          \o (IF fp = 0 THEN << >>
              ELSE IF fp % 10 = 0 THEN << ".", digitChars[(fp \div 10) + 1] >>
              ELSE << ".", digitChars[(fp \div 10) + 1], digitChars[(fp % 10) + 1] >>)

\* line 12 : `${lat},${lon}`
keyText(k) == numberToString(k[1]) \o << "," >> \o numberToString(k[2])

\* key.split(",")
RECURSIVE split(_)
split(s) ==
    LET commas == { k \in DOMAIN s : s[k] = "," }
    IN  IF commas = {} THEN << s >>
        ELSE LET j == CHOOSE k \in commas : \A x \in commas : k <= x
             IN  << SubSeq(s, 1, j - 1) >> \o split(SubSeq(s, j + 1, Len(s)))

jsNumber(n) == [ kind |-> "number", n |-> n ]

jsNaN == [ kind |-> "NaN", n |-> 0 ]

jsUndefined == [ kind |-> "undefined", n |-> 0 ]

RECURSIVE trim(_)
trim(s) ==
    IF s = << >> THEN s
    ELSE IF Head(s) = " " THEN trim(Tail(s))
    ELSE IF s[Len(s)] = " " THEN trim(SubSeq(s, 1, Len(s) - 1))
    ELSE s

RECURSIVE digitsValue(_)
digitsValue(ds) ==
    IF ds = << >> THEN 0
    ELSE 10 * digitsValue(SubSeq(ds, 1, Len(ds) - 1))
           + (CHOOSE n \in 0..9 : digitChars[n + 1] = ds[Len(ds)])

\* Number(text) for decimal notation of at most three decimals: the empty and the
\* blank text are 0, anything that is not a decimal numeral is NaN
Number(text) ==
    LET s      == trim(text)
        signed == s # << >> /\ Head(s) \in { "-", "+" }
        body   == IF signed THEN Tail(s) ELSE s
        dots   == { k \in DOMAIN body : body[k] = "." }
        dot    == IF dots = {} THEN Len(body) + 1 ELSE CHOOSE k \in dots : TRUE
        whole  == SubSeq(body, 1, dot - 1)
        frac   == SubSeq(body, dot + 1, Len(body))
        frac3  == SubSeq(frac \o << "0", "0", "0" >>, 1, 3)
        abs    == digitsValue(whole) * 1000 + digitsValue(frac3)
    IN  IF s = << >> THEN jsNumber(0)
        ELSE IF Cardinality(dots) > 1 THEN jsNaN
        ELSE IF whole = << >> /\ frac = << >> THEN jsNaN
        ELSE IF \E k \in DOMAIN body : k # dot /\ body[k] \notin Range(digitChars) THEN jsNaN
        ELSE jsNumber(IF signed /\ Head(s) = "-" THEN -abs ELSE abs)

\* lines 18-21 : the first two fields of the key, each read as a number; a field
\* that is missing is undefined; nothing is thrown
parseLocationKey(key) ==
    LET fields == split(key)
        m      == [ k \in DOMAIN fields |-> Number(fields[k]) ]
    IN  returns([ latitude  |-> IF Len(m) >= 1 THEN m[1] ELSE jsUndefined,
                  longitude |-> IF Len(m) >= 2 THEN m[2] ELSE jsUndefined ])

LatitudeInputs ==
    { -90000, -33868, -5, -4, 0, 4, 5, 1005, 37700, 37770, 37771, 37775, 90000 }

LongitudeInputs ==
    { -180000, -122420, -122421, -122425, -1, 0, 10, 151209, 179999 }

\* texts that are not the key of any coordinates, and some that are
KeyInputs ==
    { << >>,
      << "3", "7", ".", "7", "7" >>,
      << "3", "7", ".", "7", "7", "," >>,
      << "," >>,
      << "3", "7", ",", "-", "1", "2", ",", "5" >>,
      << "a", "b", "c", ",", "-", "1", "2" >>,
      << "3", "7", ",", "1", "2", "x" >>,
      << "3", "7", ".", "7", ".", "7", ",", "1" >>,
      << "-", ",", "1" >>,
      << "3", "7", ".", "7", "7", ",", "-", "1", "2", "2", ".", "4", "2" >>,
      << " ", "5", ",", "6", " " >> }

CallGetLocationKey(c) ==
    /\ call' = [ op |-> "getLocationKey", coords |-> c, key |-> keyText(getLocationKey(c)) ]
    /\ UNCHANGED exceptLib

\* the key a call of getLocationKey gave, or any text, is parsed
CallParseLocationKey(key, from) ==
    LET r == parseLocationKey(key)
    IN  /\ call' = [ op |-> "parseLocationKey", key |-> key, from |-> from,
                     thrown |-> r.thrown, value |-> r.value ]
        /\ UNCHANGED exceptLib

NextKey ==
    \/ \E lat \in LatitudeInputs, lon \in LongitudeInputs : CallGetLocationKey(<< lat, lon >>)
    \/ /\ call.op = "getLocationKey"
       /\ CallParseLocationKey(call.key, Some(call.coords))
    \/ \E key \in KeyInputs : CallParseLocationKey(key, NULL)

SpecKey == Init /\ [][NextKey]_vars

\* ------------------------------------------------------------------------
\* Direct calls of calculateTemporalData (temporal.ts) for every day of two
\* years, one of them a leap year, north and south of the equator
\* ------------------------------------------------------------------------
\* the days of month m (0-based) of year y
daysInMonth(y, m) ==
    CASE m \in { 3, 5, 8, 10 } -> 30
      [] m = 1 -> (IF isLeap(y) THEN 29 ELSE 28)
      [] OTHER -> 31

DateInputs ==
    { [ year |-> y, month |-> m, day |-> d ] :
        y \in { 2023, 2024 }, m \in 0..11, d \in 1..31 }

TemporalCoordInputs == { << 37771, -122421 >>, << 0, 0 >>, << -33868, 151209 >> }

CallCalculateTemporalData(date, c) ==
    /\ date.day <= daysInMonth(date.year, date.month)
    /\ call' = [ op |-> "calculateTemporalData", date |-> date, coords |-> c,
                 value |-> calculateTemporalData(date, c) ]
    /\ UNCHANGED exceptLib

NextTemporal ==
    /\ call.op = "none"
    /\ \E date \in DateInputs, c \in TemporalCoordInputs : CallCalculateTemporalData(date, c)

SpecTemporal == Init /\ [][NextTemporal]_vars

\* ------------------------------------------------------------------------
\* Requests to the entries routes, with and without Supabase
\* ------------------------------------------------------------------------
number(n) == json("number", n)

entryBody(x, y, z, level) ==
    [ parsed |-> TRUE, pain_point_x |-> x, pain_point_y |-> y, pain_point_z |-> z,
      pain_level |-> level ]

\* a body that is not JSON: request.json() rejects
malformed == [ entryBody(undefined, undefined, undefined, undefined) EXCEPT !.parsed = FALSE ]

EntryBodies ==
    { entryBody(number(0), number(1), number(0), number(l)) : l \in { 0, 1, 10, 11 } }
    \cup { entryBody(json("string", 0), number(1), number(0), number(5)),
           entryBody(number(0), number(1), undefined, number(5)),
           entryBody(number(0), number(1), number(0), json("string", 0)),
           entryBody(number(0), number(1), number(0), undefined),
           malformed }

PatchBodies ==
    { entryBody(undefined, undefined, undefined, level) :
         level \in { undefined, number(0), number(3), number(11), json("string", 0) } }
    \cup { malformed }

EntryIds == 1..MaxEntries

NextEntries ==
    \/ \E f \in EntryFaults : EntriesGET(f)
    \/ \E body \in EntryBodies, f \in EntryFaults : EntriesPOST(body, f)
    \/ \E id \in EntryIds, f \in EntryFaults : EntryGET(id, f)
    \/ \E id \in EntryIds, body \in PatchBodies, f \in EntryFaults : EntryPATCH(id, body, f)
    \/ \E id \in EntryIds, f \in EntryFaults : EntryDELETE(id, f)

SpecEntries == Init /\ [][NextEntries]_vars

\* ------------------------------------------------------------------------
\* One request to an environmental route, with a body of any shape
\* ------------------------------------------------------------------------
routeBody(latitude, longitude, days) ==
    [ kind |-> "object", latitude |-> latitude, longitude |-> longitude, days |-> days ]

\* what a field that is not a number can be: absent, a text, true/false, null
NotNumbers == { undefined, json("string", 0), json("boolean", 0), json("object", 0) }

ValidBodies ==
    { routeBody(number(c[1]), number(c[2]), d) :
         c \in SnapCoordInputs, d \in { undefined } \cup { number(n) : n \in 0..MaxSpan } }

InvalidBodies ==
    { routeBody(x, number(-122421), undefined) : x \in NotNumbers }
    \cup { routeBody(number(37771), x, number(1)) : x \in NotNumbers }
    \cup { routeBody(undefined, undefined, undefined),
           [ routeBody(undefined, undefined, undefined) EXCEPT !.kind = "null" ],
           [ routeBody(undefined, undefined, undefined) EXCEPT !.kind = "malformed" ] }

RouteBodies == ValidBodies \cup InvalidBodies

\* the provider's answers to the history route's requests: any answer over a
\* short range, a reading over the default range
RouteResponses(ts) ==
    IF Len(datesToFetch[1]) <= MaxSpan + 1 THEN Responses(1, ts) ELSE { okResponse(ts, 1) }

NextRoute ==
    \/ \E body \in RouteBodies, t \in NowInputs, ph \in MoonPhaseInputs :
          POSTEnvironmental(body, t, ph)
    \/ \E body \in RouteBodies : POSTHistory(body)
    \/ Respond
    \/ \E f \in StoreFaults : CacheReadResolve(1, f)
    \/ \E k \in DOMAIN batchResults[1] :
          \E resp \in RouteResponses(requested[1][i[1] + k].timestamp) :
             FetchResolve(1, k, resp)
    \/ BatchJoin(1)
    \/ DelayElapsed(1)
    \/ \E f \in StoreFaults : CacheWriteResolve(1, f)
    \/ \E resp \in WeatherResponses : WeatherResolve(resp)
    \/ \E resp \in GeomagneticResponses : GeomagneticResolve(resp)
    \/ \E resp \in SolarResponses : SolarResolve(resp)
    \/ \E resp \in TidalResponses : TidalResolve(resp)
    \/ SnapJoin

SpecRoute == Init /\ [][NextRoute]_vars

\* ------------------------------------------------------------------------
\* Direct calls of fetchFromOpenWeather (history.ts) with an answer holding
\* an intraday series: samples of one day at whole hours, in time order
\* ------------------------------------------------------------------------
MaxSamples == 3

SampleHours == { 0, 3, 6, 9, 11, 12, 13, 15, 18, 21 }

sampleAt(h) == [ dt |-> Today * oneDay + h * 3600, reading |-> h ]

RECURSIVE inTimeOrder(_)
inTimeOrder(hours) ==
    IF hours = {} THEN << >>
    ELSE LET h == CHOOSE x \in hours : \A y \in hours : x <= y
         IN  << sampleAt(h) >> \o inTimeOrder(hours \ { h })

SeriesInputs == { inTimeOrder(hs) : hs \in { s \in SUBSET SampleHours : Cardinality(s) <= MaxSamples } }

CallFetchFromOpenWeather(series) ==
    LET timestamp == Today * oneDay + noonSeconds
        r == fetchFromOpenWeather(apiKey, timestamp, [ kind |-> "ok", data |-> series ])
    IN  /\ call' = [ op |-> "fetchFromOpenWeather", series |-> series,
                     thrown |-> r.thrown, value |-> r.value ]
        /\ UNCHANGED exceptLib

NextNoon ==
    /\ call.op = "none"
    /\ \E series \in SeriesInputs : CallFetchFromOpenWeather(series)

SpecNoon == Init /\ [][NextNoon]_vars

\* ------------------------------------------------------------------------
\* One call whose cache operations and provider requests all resolve in the
\* end, over ranges of any length and a start date after the end date
\* ------------------------------------------------------------------------
LiveStarts == SingleStarts \cup { EndInstant + oneDay }

\* the provider's answers: any answer over a short range; over a long one a
\* reading for the odd days and a fault for the even days
LiveResponses(ts) ==
    IF Len(datesToFetch[1]) <= MaxSpan + 1 THEN SingleResponses(ts)
    ELSE IF isoDate(ts) % 2 = 1 THEN { okResponse(ts, 1) }
    ELSE { faultResponse("status500") }

\* every step but the call itself: an awaited promise settles
Settle ==
    \/ \E f \in StoreFaults : CacheReadResolve(1, f)
    \/ \E k \in DOMAIN batchResults[1] :
          \E resp \in LiveResponses(requested[1][i[1] + k].timestamp) :
             FetchResolve(1, k, resp)
    \/ BatchJoin(1)
    \/ DelayElapsed(1)
    \/ \E f \in StoreFaults : CacheWriteResolve(1, f)

NextLive ==
    \/ \E c \in CoordInputs, s \in LiveStarts : Start(1, c, s, EndInstant)
    \/ Settle

SpecLive == Init /\ [][NextLive]_vars /\ WF_vars(Settle)

\* ------------------------------------------------------------------------
\* A component using the hook: its props change, it refreshes, and the
\* answers of the history route arrive in any order
\* ------------------------------------------------------------------------
HookCoordinates == { NULL } \cup { Some(c) : c \in SnapCoordInputs }

HookDays == { 7, defaultDays }

HookAnswers == { "ok", "status500", "networkFault" }

NextHook ==
    \/ \E c \in HookCoordinates, d \in HookDays : Render(c, d)
    \/ Refresh
    \/ \E n \in DOMAIN fetches, got \in HookAnswers : Arrive(n, got)

SpecHook == Init /\ [][NextHook]_vars

\* ------------------------------------------------------------------------
\* Properties
\* ------------------------------------------------------------------------
afterRead(p) == pc[p] \in { "batch", "delay", "cacheWrite", "done" }

datesOf(points) == { points[k].date : k \in DOMAIN points }

okRequests(p) == { k \in DOMAIN requested[p] : requested[p][k].outcome = "ok" }

failedRequests(p) == { k \in DOMAIN requested[p] : requested[p][k].outcome = "failed" }

strictlyAscending(points) ==
    \A k \in 1..(Len(points) - 1) : points[k].date < points[k + 1].date

\* C1: when the cache read returned a point for every enumerated date, the call
\* hands no request to the historical provider client
C1_AllCachedNoProviderRequest ==
    \A p \in Procs :
        (afterRead(p) /\ Range(datesToFetch[p]) \subseteq DOMAIN cachedData[p])
            => requested[p] = << >>

C1_Witness ==
    \E p \in Procs :
        /\ pc[p] = "done"
        /\ Len(datesToFetch[p]) = 2
        /\ Range(datesToFetch[p]) \subseteq DOMAIN cachedData[p]
        /\ Len(results[p]) = 2

\* C2: a returned call that had no cache hit holds exactly N - f points, N the
\* enumerated days and f the failed provider calls; the dates present are exactly
\* the dates whose call succeeded, each once, and no placeholder stands for a failed date
C2_ZeroHitsResultIsSucceededDates ==
    (pc[1] = "done" /\ DOMAIN cachedData[1] = {})
        => /\ Len(results[1]) = Len(datesToFetch[1]) - Cardinality(failedRequests(1))
           /\ datesOf(results[1]) = { isoDate(requested[1][k].timestamp) : k \in okRequests(1) }
           /\ Cardinality(datesOf(results[1])) = Len(results[1])
           /\ Len(requested[1]) = Len(datesToFetch[1])

\* five days, the provider failing for the third only: four points, the third day absent
C2_Witness ==
    /\ pc[1] = "done"
    /\ Len(datesToFetch[1]) = 5
    /\ failedRequests(1) = { 3 }
    /\ Len(results[1]) = 4
    /\ datesToFetch[1][3] \notin datesOf(results[1])

\* C3: no call is ever rejected, and a returned call all of whose provider requests
\* failed holds exactly the points the cache read returned, ascending by date
C3_ProviderDownReturnsCachedOnly ==
    \A p \in Procs :
        /\ pc[p] # "rejected"
        /\ (pc[p] = "done" /\ okRequests(p) = {})
              => /\ Range(results[p]) = Range(cachedData[p])
                 /\ Len(results[p]) = Cardinality(DOMAIN cachedData[p])
                 /\ strictlyAscending(results[p])

C3_Witness ==
    \E p \in Procs :
        /\ pc[p] = "done"
        /\ apiKey
        /\ Len(requested[p]) = 1
        /\ failedRequests(p) = { 1 }
        /\ Len(results[p]) = 1
        /\ Len(datesToFetch[p]) = 2

\* C4: a call of fetchAllEnvironmentalData is never rejected, whatever fails, and
\* the snapshot it resolves with holds a lunar and a temporal value
C4_SnapshotNeverRejects ==
    /\ snapPc # "rejected"
    /\ snapPc = "done"
          => /\ snapshot # NULL
             /\ snapshot[1].lunar = Some(calculateLunarData(moonPhase))
             /\ snapshot[1].temporal = Some(calculateTemporalData(now, snapCoords))
             /\ snapshot[1].lunar # NULL /\ snapshot[1].temporal # NULL

\* all four providers failed and the call resolved
C4_Witness ==
    /\ snapPc = "done"
    /\ \A b \in Providers : branch[b].failed
    /\ snapshot # NULL

\* the snapshot field of a provider that answered holds what its payload carried
holdsFetched(b) ==
    LET got == branch[b].got[1]
        field == snapshot[1][b]
    IN  /\ field # NULL
        /\ CASE b = "weather" ->
                   /\ field[1].temperature = (got.temp + 5) \div 10
                   /\ field[1].pressure = got.pressure
                   /\ field[1].aqi = IF got.aq = "ok" /\ got.aqi # 0 THEN Some(got.aqi) ELSE NULL
             [] b = "geomagnetic" ->
                   field[1].kp_index = (IF got.kp = NULL THEN NaN ELSE num((got.kp[1] + 50) \div 100))
             [] b = "solar" ->
                   /\ (got.flux = NULL) = (field[1].xray_flux = NULL)
                   /\ field[1].flare_probability_24h = calculateFlareProbability(field[1].xray_class)
             [] b = "tidal" ->
                   /\ field[1].current_height_m = (IF got.v = NULL THEN 0 ELSE (got.v[1] + 5) \div 10)
                   /\ (got.next = "L") = (field[1].tidal_phase = "falling")

readBack(table, key, d) == getCachedWeather(TRUE, "ok", table, key, << d >>).value

storedKeys(table) == { << r.location_key, r.date >> : r \in table }

\* C6: once getCachedWeather returns a point for a (locationKey, date), every later
\* step, whatever is written, leaves it returning that same point
C6_FirstWriteWins ==
    [][ \A kd \in storedKeys(store) :
          readBack(store', kd[1], kd[2]) = readBack(store, kd[1], kd[2]) ]_vars

\* a later write carrying another value for a stored date has landed
C6_Witness ==
    \E p \in Procs :
        /\ pc[p] = "done"
        /\ supabaseConfigured
        /\ writeFault[p] = "ok"
        /\ \E k \in DOMAIN newlyFetched[p] : \E r \in store :
              /\ r.location_key = locationKey[p]
              /\ r.date = newlyFetched[p][k].date
              /\ r.reading # newlyFetched[p][k].reading

\* the rows of call p's write all went in: no row of another value holds their keys
wroteFirst(p) ==
    /\ pc[p] = "done"
    /\ supabaseConfigured
    /\ writeFault[p] = "ok"
    /\ newlyFetched[p] # << >>
    /\ \A k \in DOMAIN newlyFetched[p] : toRow(locationKey[p], newlyFetched[p][k]) \in store

\* C7: after cacheWeatherData(key, points) on a working store with no prior rows for
\* the keys, getCachedWeather(key, the dates of the points) returns exactly those
\* dates, each mapped to a point equal to the written one in every field
C7_WriteThenReadRoundTrip ==
    \A p \in Procs :
        wroteFirst(p) =>
            LET back == getCachedWeather(supabaseConfigured, "ok", store, locationKey[p],
                                         [ k \in DOMAIN newlyFetched[p] |-> newlyFetched[p][k].date ]).value
            IN  /\ DOMAIN back = datesOf(newlyFetched[p])
                /\ \A k \in DOMAIN newlyFetched[p] : back[newlyFetched[p][k].date] = newlyFetched[p][k]

\* C8: under every interleaving of calls writing the same (locationKey, date) pairs
\* the table holds one row per pair, a write that reaches the store logs no error,
\* and a row, once in, is the row of the write that put it there and stays
storeUnique ==
    \A r1, r2 \in store :
        (r1.location_key = r2.location_key /\ r1.date = r2.date) => r1 = r2

noWriterFails ==
    \A p \in Procs : (writeFault[p] = "ok") => ~writeError[p]

landsOnceAndStays ==
    /\ \A r \in store : r \in store'
    /\ \A r \in store' \ store :
          \E p \in Procs :
              /\ pc[p] = "cacheWrite"
              /\ pc'[p] = "done"
              /\ ~conflicts(store, r)
              /\ \E k \in DOMAIN newlyFetched[p] : r = toRow(locationKey[p], newlyFetched[p][k])

C8_ConcurrentWritersSafe ==
    [](storeUnique /\ noWriterFails) /\ [][landsOnceAndStays]_vars

\* two calls fetched the same date at once and both writes reached the store
C8_Witness ==
    \E p, q \in Procs :
        /\ p # q
        /\ pc[p] = "done" /\ pc[q] = "done"
        /\ supabaseConfigured
        /\ writeFault[p] = "ok" /\ writeFault[q] = "ok"
        /\ locationKey[p] = locationKey[q]
        /\ datesOf(newlyFetched[p]) \cap datesOf(newlyFetched[q]) # {}

\* the point the provider's answer to request k of call p stands for
fetchedPoint(p, k) ==
    [ date      |-> isoDate(requested[p][k].timestamp),
      timestamp |-> requested[p][k].timestamp,
      reading   |-> p ]

\* C9: the returned list is strictly ascending by date, and is the one list fixed by
\* what the cache read returned and by which requests succeeded, whatever the order
\* in which the requests settled
C9_ResultSortedAndDetermined ==
    \A p \in Procs :
        pc[p] = "done"
            => /\ strictlyAscending(results[p])
               /\ Range(results[p]) =
                     Range(cachedData[p]) \cup { fetchedPoint(p, k) : k \in okRequests(p) }
               /\ Len(results[p]) = Cardinality(DOMAIN cachedData[p]) + Cardinality(okRequests(p))

\* a cached day and a newly fetched day in one result
C9_Witness ==
    \E p \in Procs :
        /\ pc[p] = "done"
        /\ Cardinality(DOMAIN cachedData[p]) = 1
        /\ Len(newlyFetched[p]) = 1
        /\ Len(results[p]) = 2

\* C10 as stated: for startDate <= endDate at most 90 days apart the enumerated
\* dates are the calendar days from startDate's day through endDate's day, each
\* sampled at 12:00 UTC
inRange(p) ==
    /\ pc[p] # "idle"
    /\ startDate[p] <= endDate[p]
    /\ endDate[p] - startDate[p] <= maxDays * oneDay

noonTimestamps(p) ==
    /\ DOMAIN timestampsByDate[p] = Range(datesToFetch[p])
    /\ \A d \in DOMAIN timestampsByDate[p] : timestampsByDate[p][d] = d * oneDay + noonSeconds

oneRequestPerUncachedDate(uncached) ==
    \A j \in DOMAIN uncached :
        Cardinality({ k \in batchStarts(uncached) :
                        j \in (k + 1)..(k + Len(batchOf(uncached, k))) }) = 1

\* C11: whatever startDate and endDate, a call enumerates at most 90 dates and its
\* batches hold one request for each uncached date, so at most 90 requests; a range
\* longer than 90 days enumerates the 90 consecutive days ending at endDate's day
C11_AtMostNinetyDates ==
    pc[1] # "idle"
        => /\ Len(datesToFetch[1]) <= 90
           /\ (pc[1] = "batch"
                 => /\ Len(uncachedDates[1]) <= Len(datesToFetch[1])
                    /\ oneRequestPerUncachedDate(uncachedDates[1])
                    /\ Len(requested[1]) <= 90)
           /\ (endDate[1] - startDate[1] > 90 * oneDay
                 => /\ Len(datesToFetch[1]) = 90
                    /\ \A k \in 1..90 : datesToFetch[1][k] = isoDate(endDate[1]) - (k - 1))

\* a range of 92 days: 90 dates, the first batch of ten requests in flight
C11_Witness ==
    /\ pc[1] = "batch"
    /\ endDate[1] - startDate[1] = 92 * oneDay
    /\ Len(datesToFetch[1]) = 90
    /\ Len(uncachedDates[1]) = 90
    /\ Len(requested[1]) = 10

\* C12: a cache write that fails, by an error answered or by a throw, does not
\* reject the call: it resolves, the failure logged, with every point fetched in
\* this call together with the points the cache read returned
C12_WriteFailureStillReturns ==
    \A p \in Procs :
        /\ pc[p] = "cacheWrite" => newlyFetched[p] # << >>
        /\ pc[p] # "rejected"
        /\ (pc[p] = "done" /\ supabaseConfigured /\ writeFault[p] = "fault")
              => /\ writeError[p]
                 /\ \A k \in okRequests(p) : fetchedPoint(p, k) \in Range(results[p])
                 /\ Range(newlyFetched[p]) \subseteq Range(results[p])
                 /\ Range(cachedData[p]) \subseteq Range(results[p])
                 /\ \A k \in DOMAIN newlyFetched[p] :
                       toRow(locationKey[p], newlyFetched[p][k]).date \notin
                           { r.date : r \in { s \in store : s.reading = p } }

\* the write of a call that holds a cached and a fetched point failed
C12_Witness ==
    \E p \in Procs :
        /\ pc[p] = "done"
        /\ supabaseConfigured
        /\ writeFault[p] = "fault"
        /\ writeError[p]
        /\ Len(newlyFetched[p]) = 1
        /\ Cardinality(DOMAIN cachedData[p]) = 1
        /\ Len(results[p]) = 2

\* the rows the store holds for the key of the call, among the dates asked for
rowsAskedFor ==
    { r \in store : r.location_key = call.key /\ r.date \in call.dates }

\* C13: cache reads fail open.  getCachedWeather gives the empty map, and
\* getCacheStats count 0 with null dates, when the store is not configured, holds
\* no row asked for, answers an error or throws; neither throws to its caller
C13_CacheReadsFailOpen ==
    /\ call.op = "getCachedWeather"
          => /\ ~call.thrown
             /\ (~supabaseConfigured \/ call.fault # "ok" \/ rowsAskedFor = {})
                   => call.value = << >>
             /\ (supabaseConfigured /\ call.fault = "ok")
                   => DOMAIN call.value = { r.date : r \in rowsAskedFor }
    /\ call.op = "getCacheStats"
          => /\ ~call.thrown
             /\ (~supabaseConfigured \/ call.fault # "ok"
                   \/ { r \in store : r.location_key = call.key } = {})
                   => call.value = [ count |-> 0, oldestDate |-> NULL, newestDate |-> NULL ]
             /\ (supabaseConfigured /\ call.fault = "ok")
                   => call.value.count = Cardinality({ r \in store : r.location_key = call.key })

\* the store threw on a read of rows it holds
C13_Witness ==
    /\ call.op = "getCachedWeather"
    /\ call.fault = "throw"
    /\ supabaseConfigured
    /\ Cardinality(rowsAskedFor) = 2
    /\ call.value = << >>
    /\ ~call.thrown

distance(a, b) == IF a >= b THEN a - b ELSE b - a

\* C14: the key of coordinates c parses to coordinates within 0.01 degrees of c on
\* each axis, and to c itself when c has two decimals; (37.77, -122.42) has the
\* key "37.77,-122.42", which parses to (37.77, -122.42)
C14_KeyRoundTrip ==
    (call.op = "parseLocationKey" /\ call.from # NULL)
        => LET c == call.from[1]
           IN  /\ ~call.thrown
               /\ call.value.latitude.kind = "number"
               /\ call.value.longitude.kind = "number"
               /\ distance(call.value.latitude.n, c[1]) <= 10
               /\ distance(call.value.longitude.n, c[2]) <= 10
               /\ (c[1] % 10 = 0 /\ c[2] % 10 = 0)
                     => (call.value.latitude.n = c[1] /\ call.value.longitude.n = c[2])
               /\ c = << 37770, -122420 >>
                     => call.key = << "3", "7", ".", "7", "7", ",",
                                      "-", "1", "2", "2", ".", "4", "2" >>

\* coordinates of three decimals came back rounded to two
C14_Witness ==
    /\ call.op = "parseLocationKey"
    /\ call.from = Some(<< 37771, -122421 >>)
    /\ call.value.latitude = jsNumber(37770)
    /\ call.value.longitude = jsNumber(-122420)

\* a numeral: digits with at most one point and an optional sign
numeral(field) ==
    LET body == IF field # << >> /\ Head(field) \in { "-", "+" } THEN Tail(field) ELSE field
    IN  /\ \E k \in DOMAIN body : body[k] \in Range(digitChars)
        /\ \A k \in DOMAIN body : body[k] \in Range(digitChars) \cup { "." }
        /\ Cardinality({ k \in DOMAIN body : body[k] = "." }) <= 1

twoNumericFields(key) ==
    /\ Len(split(key)) = 2
    /\ \A k \in 1..2 : numeral(split(key)[k])

\* C15: parseLocationKey signals a failure, and returns no coordinates, for every
\* key that is not two numeric fields separated by a comma
C15_MalformedKeyFails ==
    (call.op = "parseLocationKey" /\ ~twoNumericFields(call.key)) => call.thrown

\* call p ended with every one of its dates fetched in that call and stored
fetchedAndStoredAll(p) ==
    /\ pc[p] = "done"
    /\ supabaseConfigured
    /\ datesToFetch[p] # << >>
    /\ Len(newlyFetched[p]) = Len(datesToFetch[p])
    /\ \A k \in DOMAIN newlyFetched[p] : toRow(locationKey[p], newlyFetched[p][k]) \in store

\* the points of a result as the store keeps them and gives them back
asStored(key, points) == [ k \in DOMAIN points |-> fromRow(toRow(key, points[k])) ]

\* C16: when a call for coordinates of the same location key and the same dates
\* reads a working cache after a call that fetched and stored every date has
\* ended, it issues no provider request and returns the points the first stored
C16_SharedCellReusesCache ==
    [][ \A p, q \in Procs :
          ( /\ p # q
            /\ fetchedAndStoredAll(p)
            /\ locationKey[q] = locationKey[p]
            /\ datesToFetch[q] = datesToFetch[p]
            /\ CacheReadResolve(q, "ok") )
          => /\ pc'[q] = "done"
             /\ requested'[q] = << >>
             /\ results'[q] = asStored(locationKey[p], results[p]) ]_vars

\* the second call found both days of the first in the cache
C16_Witness ==
    \E p, q \in Procs :
        /\ p # q
        /\ fetchedAndStoredAll(p)
        /\ Len(datesToFetch[p]) = 2
        /\ pc[q] = "done"
        /\ datesToFetch[q] = datesToFetch[p]
        /\ requested[q] = << >>
        /\ Len(results[q]) = 2
        /\ \A k \in 1..2 : results[q][k].reading = p

solsticeDate(date) == date.day = 21 /\ date.month \in { 5, 11 }

\* C17: days_since_solstice is never negative, in either hemisphere, and is 0
\* exactly on June 21 and on December 21
C17_DaysSinceSolsticeNonNegative ==
    call.op = "calculateTemporalData"
        => /\ call.value.days_since_solstice >= 0
           /\ (call.value.days_since_solstice = 0) = solsticeDate(call.date)

\* the day count of the latest June 21 or December 21 that is not after the date
latestSolstice(date) ==
    LET today == dayNumber(date.year, date.month, date.day)
        all   == { dayNumber(y, m, 21) : y \in { date.year - 1, date.year }, m \in { 5, 11 } }
        past  == { s \in all : s <= today }
    IN  CHOOSE s \in past : \A x \in past : x <= s

\* C18: days_since_solstice is the number of days since the latest solstice, June
\* 21 or December 21, that is not after the date: December 21 of the previous
\* year for a January date, December 21 of the same year for a date after it
C18_DaysSinceLatestSolstice ==
    call.op = "calculateTemporalData"
        => call.value.days_since_solstice
              = dayNumber(call.date.year, call.date.month, call.date.day) - latestSolstice(call.date)

\* C19: without Supabase, an entry that POST /api/entries returned with 201
\* and that was not deleted since is found by GET /api/entries/[id], changed
\* by PATCH and removed by DELETE on its id: such a request with a valid
\* body is answered with 200
C19_CreatedEntryReachableById ==
    ( /\ ~ supabaseConfigured
      /\ entryResponse.byId
      /\ entryResponse.live
      /\ entryResponse.valid )
    => entryResponse.status = 200

\* a body whose latitude or longitude is not a number
notNumeric(body) ==
    \/ body.kind # "object"
    \/ body.latitude.type # "number"
    \/ body.longitude.type # "number"

\* no client was called: no provider request, no cache read, no cache write
nothingPerformed ==
    /\ pc[1] = "idle"
    /\ requested[1] = << >>
    /\ store = {}
    /\ snapPc = "idle"
    /\ \A b \in Providers : branch[b].state = "pending"

\* C20 (as stated): a request to the snapshot or the history endpoint whose
\* latitude or longitude is not a number is answered with 400 'Invalid
\* coordinates', and no provider request and no cache read or write is made
C20_NonNumericCoordinatesGet400 ==
    (routeResponse.route # "none" /\ notNumeric(routeResponse.body))
        => (routeResponse.status = 400 /\ nothingPerformed)

\* C20 (amended): such a request is answered with an explicit failure, 400
\* 'Invalid coordinates' when the body is a JSON object and 500 when the body
\* is null or not JSON, and in both cases no provider request and no cache
\* read or write is made
C20_NonNumericCoordinatesFail ==
    (routeResponse.route # "none" /\ notNumeric(routeResponse.body))
        => /\ routeResponse.status = IF routeResponse.body.kind = "object" THEN 400 ELSE 500
           /\ nothingPerformed

C20_Witness ==
    /\ routeResponse.route = "history"
    /\ routeResponse.body.kind = "object"
    /\ routeResponse.body.latitude.type = "number"
    /\ routeResponse.body.longitude.type = "string"
    /\ routeResponse.status = 400

\* every provider request of the call has been issued and has resolved
allRequestsResolved(p) ==
    /\ Len(requested[p]) = Len(uncachedDates[p])
    /\ \A k \in DOMAIN requested[p] : requested[p][k].outcome # "pending"

\* C21: within one assembly the steps are strictly sequenced: no provider
\* request is issued before the cache read has completed, the cache write is
\* invoked only after every provider request of every batch has resolved, and
\* the result is returned only after the cache write has resolved
C21_StrictlySequenced ==
    \A p \in Procs :
        /\ pc[p] \in { "idle", "cacheRead" } => requested[p] = << >>
        /\ pc[p] \in { "cacheWrite", "done" } => allRequestsResolved(p)
        /\ pc[p] # "done" => (results[p] = << >> /\ writeFault[p] = "none")
        /\ (pc[p] = "done" /\ newlyFetched[p] # << >>) => writeFault[p] # "none"

C21_Witness ==
    /\ pc[1] = "done"
    /\ Len(requested[1]) > batchSize
    /\ newlyFetched[1] # << >>
    /\ writeFault[1] = "ok"

\* the requests of a call that have not resolved yet
inFlight(p) == { k \in DOMAIN requested[p] : requested[p][k].outcome = "pending" }

\* C22: during one assembly at most 10 provider requests are in flight at
\* any time, all of them of the current batch, and the requests of the next
\* batch are issued only by the step that ends the pacing delay, when every
\* request issued before has resolved
C22_BatchesOfTenPaced ==
    /\ [](\A p \in Procs :
            /\ Cardinality(inFlight(p)) <= batchSize
            /\ \A k \in inFlight(p) : k > i[p] /\ k <= i[p] + batchSize
            /\ Len(requested[p]) <= i[p] + batchSize
            /\ pc[p] = "delay" => (inFlight(p) = {} /\ Len(requested[p]) = i[p] + batchSize))
    /\ [][\A p \in Procs :
            (Len(requested[p]) > 0 /\ Len(requested'[p]) > Len(requested[p]))
                => /\ pc[p] = "delay"
                   /\ inFlight(p) = {}
                   /\ Len(requested'[p]) <= Len(requested[p]) + batchSize]_vars

C22_Witness ==
    /\ pc[1] = "batch"
    /\ i[1] = batchSize
    /\ Len(uncachedDates[1]) > batchSize
    /\ inFlight(1) # {}

\* the client got a 2xx answer holding an array whose latest entry it read
answered(b) == branch[b].state = "resolved" /\ branch[b].got # << >>

\* C23: a 2xx answer whose array is well formed but whose latest entry lacks
\* its reading (flux for the solar client, Kp for the geomagnetic client)
\* gives an unavailable result or a value without classification: never an
\* X-ray class with a flare probability, never a storm level
C23_MissingReadingNotClassified ==
    /\ (answered("solar") /\ branch["solar"].got[1].flux = NULL)
          => \/ branch["solar"].value = NULL
             \/ branch["solar"].value[1].xray_class \notin { "A", "B", "C", "M", "X" }
    /\ (answered("geomagnetic") /\ branch["geomagnetic"].got[1].kp = NULL)
          => \/ branch["geomagnetic"].value = NULL
             \/ branch["geomagnetic"].value[1].storm_level
                   \notin { "G0", "G1", "G2", "G3", "G4", "G5" }

\* the time between a sample and 12:00 of its day
fromNoon(sample) ==
    LET s == sample.dt % oneDay
    IN  IF s >= noonSeconds THEN s - noonSeconds ELSE noonSeconds - s

noonAdjacent(series) ==
    { k \in DOMAIN series : getHours(series[k].dt) \in 11..13 }

\* C24: of a non-empty intraday series the sample chosen as the day's
\* representative is the one nearest to noon; only when no sample has an
\* hour of 11 to 13 is the sample at index floor(length / 2) chosen
C24_NearestToNoonChosen ==
    (call.op = "fetchFromOpenWeather" /\ call.series # << >> /\ call.value # NULL)
        => LET series == call.series
               chosen == call.value[1].timestamp
           IN  IF noonAdjacent(series) # {}
               THEN \E k \in DOMAIN series :
                       /\ series[k].dt = chosen
                       /\ \A j \in DOMAIN series : fromNoon(series[k]) <= fromNoon(series[j])
               ELSE chosen = series[(Len(series) \div 2) + 1].dt

\* the dates a call has asked the provider for
requestedDates(p) == { isoDate(requested[p][k].timestamp) : k \in DOMAIN requested[p] }

\* C25: within one assembly a date that the cache read returned is neither
\* requested from the provider nor among the rows passed to the cache write,
\* every uncached date is requested at most once, and when nothing was newly
\* fetched no cache write is issued
C25_CachedDatesLeftAlone ==
    \A p \in Procs :
        /\ requestedDates(p) \cap DOMAIN cachedData[p] = {}
        /\ datesOf(newlyFetched[p]) \cap DOMAIN cachedData[p] = {}
        /\ requestedDates(p) \subseteq Range(uncachedDates[p])
        /\ \A j, k \in DOMAIN requested[p] :
              j # k => requested[p][j].timestamp # requested[p][k].timestamp
        /\ pc[p] = "cacheWrite" => newlyFetched[p] # << >>
        /\ (pc[p] = "done" /\ newlyFetched[p] = << >>) => writeFault[p] = "none"

\* a later call found one date cached, fetched the other and stored it
C25_Witness ==
    /\ pc[2] = "done"
    /\ Cardinality(DOMAIN cachedData[2]) = 1
    /\ Len(requested[2]) = 1
    /\ Len(newlyFetched[2]) = 1
    /\ writeFault[2] = "ok"

\* the dates for which the provider failed, and succeeded, in a call
failedDates(p) == { isoDate(requested[p][k].timestamp) : k \in failedRequests(p) }

succeededDates(p) == { isoDate(requested[p][k].timestamp) : k \in okRequests(p) }

\* call p has returned and the cache took what it fetched
returnedWithWorkingCache(p) ==
    /\ pc[p] = "done"
    /\ supabaseConfigured
    /\ (writeFault[p] = "ok" \/ newlyFetched[p] = << >>)

\* call q reads the cache after call p returned, over the same range and
\* cell, no other call having run
readsAfter(p, q) ==
    /\ p # q
    /\ returnedWithWorkingCache(p)
    /\ \A r \in Procs \ { p, q } : pc[r] = "idle"
    /\ locationKey[q] = locationKey[p]
    /\ datesToFetch[q] = datesToFetch[p]
    /\ CacheReadResolve(q, "ok")

\* C26: a provider failure for a date is never recorded in the cache: every
\* row of the cache is of a date the provider answered for, and with a
\* working cache, after a call in which the provider failed for the dates F
\* and succeeded for the others, a later call over the same range and cell
\* finds exactly the dates of F uncached and requests exactly those
C26_FailuresNotCached ==
    /\ [](\A r \in store :
            \E p \in Procs : r.location_key = locationKey[p] /\ r.date \in succeededDates(p))
    /\ [][\A p, q \in Procs :
            readsAfter(p, q)
                => /\ Range(uncachedDates'[q]) = failedDates(p)
                   /\ { isoDate(requested'[q][k].timestamp) : k \in DOMAIN requested'[q] }
                         = failedDates(p)]_vars

\* the first call fetched one date and failed for another; the second call
\* found the first cached and asks for the second
C26_Witness ==
    /\ returnedWithWorkingCache(1)
    /\ okRequests(1) # {}
    /\ failedRequests(1) # {}
    /\ pc[2] = "batch"
    /\ datesToFetch[2] = datesToFetch[1]
    /\ DOMAIN cachedData[2] = succeededDates(1)
    /\ requestedDates(2) = failedDates(1)

\* C27: with a working cache availability is monotone across calls: a call
\* that reads the cache after another call over the same range and cell has
\* returned is given every date of that call's result, and every date a call
\* was given by the cache is in its result, whatever the provider answers
C27_AvailabilityMonotone ==
    /\ [](\A q \in Procs :
            pc[q] = "done" => DOMAIN cachedData[q] \subseteq datesOf(results[q]))
    /\ [][\A p, q \in Procs :
            readsAfter(p, q) => datesOf(results[p]) \subseteq DOMAIN cachedData'[q]]_vars

\* the provider answered the first call for one date only and the second
\* call not at all; the second call still returns that date
C27_Witness ==
    /\ returnedWithWorkingCache(1)
    /\ okRequests(1) # {}
    /\ failedRequests(1) # {}
    /\ pc[2] = "done"
    /\ datesToFetch[2] = datesToFetch[1]
    /\ okRequests(2) = {}
    /\ failedRequests(2) # {}
    /\ results[1] # << >>
    /\ datesOf(results[2]) = datesOf(results[1])

\* the batches a call has issued: the batch loop steps i by the batch size
batchesRun(p) == IF requested[p] = << >> THEN 0 ELSE (i[p] \div batchSize) + 1

\* C28: when every cache operation and provider request resolves, a call of
\* fetchHistoricalWeatherRange returns, having run exactly ceil(U / 10)
\* batches for its U uncached dates; with startDate after endDate it returns
\* an empty list without any provider request
C28_ReturnsAfterCeilBatches ==
    /\ (pc[1] # "idle") ~> (pc[1] = "done")
    /\ [](pc[1] = "done"
            => /\ batchesRun(1) = CeilDiv(Len(uncachedDates[1]), batchSize)
               /\ Len(requested[1]) = Len(uncachedDates[1]))
    /\ []((pc[1] # "idle" /\ startDate[1] > endDate[1])
            => (requested[1] = << >> /\ results[1] = << >>))

C28_Witness ==
    /\ pc[1] = "done"
    /\ Len(uncachedDates[1]) = batchSize + 1
    /\ batchesRun(1) = 2
    /\ okRequests(1) # {}
    /\ failedRequests(1) # {}

\* C29: in fetchWeatherData a failure of the air-quality request of any kind
\* (non-2xx status or network fault) does not discard a fetched weather
\* reading: the weather returned carries the values of the weather response,
\* with aqi and aqi_label null
C29_AqiFailureKeepsWeather ==
    [][\A resp \in WeatherResponses :
          ( /\ apiKey
            /\ resp.wx = "ok"
            /\ resp.aq \in { "status500", "networkFault" }
            /\ WeatherResolve(resp) )
          => /\ branch'["weather"].value # NULL
             /\ branch'["weather"].value[1].temperature = round1(resp.temp)
             /\ branch'["weather"].value[1].pressure = resp.pressure
             /\ branch'["weather"].value[1].aqi = NULL
             /\ branch'["weather"].value[1].aqi_label = NULL]_vars

\* C30: when the coordinates or the days change while an earlier request is
\* in flight, then once all the responses have arrived the hook's data is
\* the response to the request issued last, in whatever order they arrived
C30_DataIsLatestRequest ==
    ( /\ Len(fetches) > 1
      /\ \A n \in DOMAIN fetches : fetches[n].arrived
      /\ hookState.error = NULL )
    => hookState.data = historicalData(Len(fetches))

====
